---- MODULE Spec2Model ----
(***************************************************************************)
(* Notification core of the Frigate manager (src/frigate):                 *)
(*   - NotificationRule: anchored, case-insensitive regular expressions    *)
(*   - NotificationManager.get_matching_rules / process_event              *)
(*   - HysteresisTracker: per "camera:object_type" minimum interval        *)
(* Strings are sequences of one-character strings, so that formatting      *)
(* (f'^{camera}$', f"{camera}:{object_type}"), lower-casing and regular    *)
(* expression matching are computed, not assumed.                          *)
(***************************************************************************)
EXTENDS Integers, Sequences, FiniteSets, TLC

VARIABLES
    rules,              \* NotificationManager._rules (config.notification_rules)
    last_notification,  \* HysteresisTracker._last_notification: key -> time
    now,                \* the wall clock read by time.time() / datetime.now()
    delivered,          \* the mail server's view: key -> time of the last mail
    log,                \* what the last process_event call did, rule by rule
    matching,           \* the value the last get_matching_rules call returned
    ret,                \* the last HysteresisTracker calls and their return values
    arg,                \* the arguments of a call that is about to be made
    lock,               \* HysteresisTracker._lock: the threads holding it
    pc,                 \* per thread: the statement it is at
    local,              \* per thread: the arguments and locals of its call
    driver,             \* ReolinkDriver: _last_alarm_state, last_event_time, debounce_time
    monitor,            \* DoorbellMonitor: camera_enabled_state, reconnect_attempts
    poll,               \* what the last pass of the doorbell monitor loop did
    cameras,            \* FrigateMQTTClient._cameras: camera -> last enabled/state
    commands,           \* what the last camera connectivity check did
    api,                \* FrigateApiHelper: _jwt_token, _token_expiry, _login_in_progress
    lanmon,             \* LanMonitor: known and connected clients, quiesce entries
    worker,             \* a presence worker of the event daemon: its recorded status
    server              \* a system-management HTTP service: secret and actions run

\* the variables of the notification core (the clock apart), of the doorbell
\* monitor, of the camera connectivity check and of the other services
core == <<rules, last_notification, delivered, log, matching, ret, arg, lock, pc, local>>

doorbell == <<driver, monitor, poll>>

connectivity == <<cameras, commands>>

services == <<api, lanmon, worker, server>>

periphery == <<doorbell, connectivity, services>>

vars == <<core, now, periphery>>

(***************************************************************************)
(* Bounds of the model.                                                    *)
(***************************************************************************)
MaxNameLen == 2     \* camera names of an event: every string up to this length
MaxRules == 2       \* length of the configured rule list
MaxTime == 3        \* the clock stops advancing here
DayLen == 3         \* clock ticks in one day (time of day = now % DayLen)

(***************************************************************************)
(* Strings.                                                                *)
(***************************************************************************)
NameAlphabet == {"a", "A", "b"}

RECURSIVE StringsUpTo(_, _)
StringsUpTo(alphabet, n) ==
    IF n = 0 THEN {<<>>}
    ELSE LET shorter == StringsUpTo(alphabet, n - 1)
         IN  shorter \cup {Append(s, c) : s \in shorter, c \in alphabet}

\* str.lower(), and the case folding of re.IGNORECASE, on one character
LowerChar(c) ==
    CASE c = "A" -> "a"
      [] c = "B" -> "b"
      [] c = "P" -> "p"
      [] c = "N" -> "n"
      [] c = "E" -> "e"
      [] c = "W" -> "w"
      [] OTHER -> c

Lower(s) == [i \in 1..Len(s) |-> LowerChar(s[i])]

(***************************************************************************)
(* Regular expressions: the subset of Python's re syntax the rules use     *)
(* (literals, ".", postfix "*", top-level "|", the anchors "^" and "$"),   *)
(* matched as re.Pattern.match does: at the start of the string, any end.  *)
(***************************************************************************)
\* f'^{pattern}$'
Anchored(pattern) == <<"^">> \o pattern \o <<"$">>

\* the alternatives of a regular expression: "|" binds loosest
RECURSIVE Alternatives(_)
Alternatives(re) ==
    IF \A i \in 1..Len(re) : re[i] # "|" THEN <<re>>
    ELSE LET k == CHOOSE i \in 1..Len(re) :
                      re[i] = "|" /\ \A j \in 1..(i - 1) : re[j] # "|"
         IN  <<SubSeq(re, 1, k - 1)>> \o Alternatives(SubSeq(re, k + 1, Len(re)))

\* one pattern character against one subject character (re.IGNORECASE;
\* "." matches anything but a newline)
CharMatches(c, ch) ==
    IF c = "." THEN ch # "\n" ELSE LowerChar(c) = LowerChar(ch)

\* "$" without re.MULTILINE: at the end, or just before a final newline
AtEnd(s, pos) ==
    \/ pos = Len(s) + 1
    \/ pos = Len(s) /\ s[pos] = "\n"

\* the positions (one past the last matched character) at which the items
\* re[i..] can stop when they start matching s at pos
RECURSIVE MatchEnds(_, _, _, _)
MatchEnds(re, i, s, pos) ==
    IF i > Len(re) THEN {pos}
    ELSE IF re[i] = "^" THEN
        IF pos = 1 THEN MatchEnds(re, i + 1, s, pos) ELSE {}
    ELSE IF re[i] = "$" THEN
        IF AtEnd(s, pos) THEN MatchEnds(re, i + 1, s, pos) ELSE {}
    ELSE IF i < Len(re) /\ re[i + 1] = "*" THEN
        MatchEnds(re, i + 2, s, pos)
        \cup (IF pos <= Len(s) /\ CharMatches(re[i], s[pos])
              THEN MatchEnds(re, i, s, pos + 1) ELSE {})
    ELSE IF pos <= Len(s) /\ CharMatches(re[i], s[pos])
         THEN MatchEnds(re, i + 1, s, pos + 1) ELSE {}

\* re.compile(re, re.IGNORECASE): the compiled pattern is the list of its
\* alternatives
Compile(re) == Alternatives(re)

\* compiled.match(s) is not None
PatternMatch(compiled, s) ==
    \E k \in 1..Len(compiled) : MatchEnds(compiled[k], 1, s, 1) # {}

\* re.fullmatch(re, s, re.IGNORECASE) is not None: some alternative
\* consumes the whole of s
FullMatch(re, s) ==
    LET alts == Alternatives(re)
    IN  \E k \in 1..Len(alts) : (Len(s) + 1) \in MatchEnds(alts[k], 1, s, 1)

(***************************************************************************)
(* Python values.  An Optional value is the empty set (None) or a          *)
(* singleton; a dict is a function on the keys it holds.                   *)
(***************************************************************************)
\* dict.get(key, default)
DictGet(d, key, default) == IF key \in DOMAIN d THEN d[key] ELSE default

EmptyDict == [k \in {} |-> 0]

\* d[key] = value
DictSet(d, key, value) ==
    [k \in (DOMAIN d) \cup {key} |-> IF k = key THEN value ELSE d[k]]

(***************************************************************************)
(* NotificationRule.                                                       *)
(***************************************************************************)
\* the dataclass constructor followed by __post_init__, which compiles the
\* two patterns.  zones holds the configured zone names (None and [] are
\* both the empty set: the code only tests the list's truth value).
NotificationRule(a) ==
    [camera |-> a.camera,
     object_type |-> a.object_type,
     email_to |-> a.email_to,
     hysteresis_seconds |-> a.hysteresis_seconds,
     min_score |-> a.min_score,
     enabled |-> a.enabled,
     zones |-> a.zones,
     include_thumbnail |-> a.include_thumbnail,
     include_snapshot |-> a.include_snapshot,
     notify_on_new |-> a.notify_on_new,
     notify_on_end |-> a.notify_on_end,
     quiet_hours_start |-> a.quiet_hours_start,
     quiet_hours_end |-> a.quiet_hours_end,
     subject_template |-> a.subject_template,
     camera_pattern |-> Compile(Anchored(a.camera)),
     object_type_pattern |-> Compile(Anchored(a.object_type))]

\* the field defaults of the dataclass, with one recipient; the subject
\* template is held as the set of fields it names
RuleDefaults ==
    [camera |-> <<".", "*">>,
     object_type |-> <<".", "*">>,
     email_to |-> <<"me">>,
     hysteresis_seconds |-> 2,
     min_score |-> 1,
     enabled |-> TRUE,
     zones |-> {},
     include_thumbnail |-> TRUE,
     include_snapshot |-> FALSE,
     notify_on_new |-> TRUE,
     notify_on_end |-> FALSE,
     quiet_hours_start |-> {},
     quiet_hours_end |-> {},
     subject_template |-> {"camera", "label"}]

(***************************************************************************)
(* FrigateEvent.                                                           *)
(***************************************************************************)
\* the event type strings of a payload
TypeNew == <<"n", "e", "w">>
TypeNewUpper == <<"N", "E", "W">>
TypeUpdate == <<"u", "p", "d", "a", "t", "e">>
TypeEnd == <<"e", "n", "d">>
TypeOther == <<"x">>

\* FrigateEventType(value): the member with that value, or ValueError
FrigateEventType(value) ==
    CASE value = TypeNew -> "NEW"
      [] value = TypeUpdate -> "UPDATE"
      [] value = TypeEnd -> "END"
      [] OTHER -> "ValueError"

\* FrigateEventData.from_dict taking a full score where none is given
FromDictDefaultScoreOne(data) ==
    [camera |-> DictGet(data, "camera", <<>>),
     label |-> DictGet(data, "label", <<>>),
     score |-> DictGet(data, "score", 0),
     top_score |-> DictGet(data, "top_score", 1),
     current_zones |-> DictGet(data, "current_zones", {}),
     entered_zones |-> DictGet(data, "entered_zones", {})]

\* FrigateEventData.from_dict: every key is optional
FrigateEventData_from_dict(data) ==
    [camera |-> DictGet(data, "camera", <<>>),
     label |-> DictGet(data, "label", <<>>),
     score |-> DictGet(data, "score", 0),
     top_score |-> DictGet(data, "top_score", 0),
     current_zones |-> DictGet(data, "current_zones", {}),
     entered_zones |-> DictGet(data, "entered_zones", {})]

\* from_dict taking an unknown type for a new event
FromDictUnknownIsNew(data) ==
    LET after == FrigateEventData_from_dict(data["after"])
        event_type_str == Lower(DictGet(data, "type", TypeUpdate))
        parsed == FrigateEventType(event_type_str)
        event_type == IF parsed = "ValueError" THEN "NEW" ELSE parsed
    IN  [event_type |-> event_type, after |-> after]

\* FrigateEvent.from_dict
FrigateEvent_from_dict(data) ==
    LET after == FrigateEventData_from_dict(data["after"])
        event_type_str == Lower(DictGet(data, "type", TypeUpdate))
        parsed == FrigateEventType(event_type_str)
        event_type == IF parsed = "ValueError" THEN "UPDATE" ELSE parsed
    IN  [event_type |-> event_type, after |-> after]

(***************************************************************************)
(* NotificationManager: rule matching.                                     *)
(***************************************************************************)
\* _rule_matches without its test of rule.enabled
RuleMatchesIgnoringEnabled(rule, camera, label, zones) ==
    IF ~PatternMatch(rule.camera_pattern, camera) THEN FALSE
    ELSE IF ~PatternMatch(rule.object_type_pattern, label) THEN FALSE
    ELSE IF rule.zones # {} /\ zones \cap rule.zones = {} THEN FALSE
    ELSE TRUE

_rule_matches(rule, camera, label, zones) ==
    IF ~rule.enabled THEN FALSE
    ELSE IF ~PatternMatch(rule.camera_pattern, camera) THEN FALSE
    ELSE IF ~PatternMatch(rule.object_type_pattern, label) THEN FALSE
    ELSE IF rule.zones # {} /\ zones \cap rule.zones = {} THEN FALSE
    ELSE TRUE

\* the loop of get_matching_rules from rule i on, with the list built so far
RECURSIVE MatchingLoop(_, _, _, _)
MatchingLoop(rs, i, event, acc) ==
    IF i > Len(rs) THEN acc
    ELSE LET camera == event.after.camera
             label == event.after.label
             zones == event.after.current_zones
         IN  MatchingLoop(rs, i + 1, event,
                 IF _rule_matches(rs[i], camera, label, zones)
                 THEN Append(acc, rs[i]) ELSE acc)

get_matching_rules(rs, event) == MatchingLoop(rs, 1, event, <<>>)

(***************************************************************************)
(* HysteresisTracker.  Each operation is given the map and the value       *)
(* time.time() returns, and yields what it returns and the map it leaves.  *)
(***************************************************************************)
\* f"{camera}:{object_type}"
get_key(camera, object_type) == camera \o <<":">> \o object_type

\* entering the block without waiting for the lock
AcquireWithoutWaiting(t) ==
    lock' = lock \cup {t}

\* can_notify taking the interval it grants (a test-and-set)
CanNotifyAndRecord(m, camera, object_type, hysteresis_seconds, current_time) ==
    LET key == get_key(camera, object_type)
        last_time == DictGet(m, key, 0)
        allowed == current_time - last_time >= hysteresis_seconds
    IN  [value |-> allowed,
         last_notification |-> IF allowed THEN DictSet(m, key, current_time) ELSE m]

\* can_notify dropping an entry whose interval has passed
CanNotifyExpiring(m, camera, object_type, hysteresis_seconds, current_time) ==
    LET key == get_key(camera, object_type)
        last_time == DictGet(m, key, 0)
        allowed == current_time - last_time >= hysteresis_seconds
    IN  [value |-> allowed,
         last_notification |-> IF allowed THEN [k \in (DOMAIN m) \ {key} |-> m[k]] ELSE m]

\* can_notify with a strict comparison
CanNotifyStrict(m, camera, object_type, hysteresis_seconds, current_time) ==
    LET key == get_key(camera, object_type)
        last_time == DictGet(m, key, 0)
    IN  [value |-> (current_time - last_time > hysteresis_seconds),
         last_notification |-> m]

can_notify(m, camera, object_type, hysteresis_seconds, current_time) ==
    LET key == get_key(camera, object_type)
        last_time == DictGet(m, key, 0)
    IN  [value |-> (current_time - last_time >= hysteresis_seconds),
         last_notification |-> m]

record_notification(m, camera, object_type, current_time) ==
    DictSet(m, get_key(camera, object_type), current_time)

clear(m) == EmptyDict

(***************************************************************************)
(* NotificationRule.is_quiet_hours at clock reading t.  The configured     *)
(* "HH:MM" values are held as the time of day they parse to.               *)
(***************************************************************************)
TimeOfDay(t) == t % DayLen

TheValue(optional) == CHOOSE x \in optional : TRUE

\* is_quiet_hours with the end of the window left out
QuietHoursEndExclusive(rule, t) ==
    IF rule.quiet_hours_start = {} \/ rule.quiet_hours_end = {} THEN FALSE
    ELSE LET time_now == TimeOfDay(t)
             start == TheValue(rule.quiet_hours_start)
             end == TheValue(rule.quiet_hours_end)
         IN  IF start <= end
             THEN start <= time_now /\ time_now < end
             ELSE time_now >= start \/ time_now < end

is_quiet_hours(rule, t) ==
    IF rule.quiet_hours_start = {} \/ rule.quiet_hours_end = {} THEN FALSE
    ELSE LET time_now == TimeOfDay(t)
             start == TheValue(rule.quiet_hours_start)
             end == TheValue(rule.quiet_hours_end)
         IN  IF start <= end
             THEN start <= time_now /\ time_now <= end
             ELSE time_now >= start \/ time_now <= end

(***************************************************************************)
(* EmailSender.send_html_email: False without recipients, otherwise what   *)
(* the SMTP conversation gives (an exception in it is caught: False).      *)
(***************************************************************************)
send_html_email(to_addresses, smtp_ok) ==
    IF to_addresses = <<>> THEN FALSE ELSE smtp_ok

\* the fields str.format is given for the subject line
SubjectFields == {"camera", "label", "score", "zones"}

\* what a request for an image of the event gives: bytes, no bytes, or one
\* of the failures of _fetch_image
FetchOutcomes == {"data", "empty", "auth_failed", "http_error"}

\* FrigateApiHelper._fetch_image (fetch_thumbnail, fetch_snapshot): the
\* bytes read, None after any failure
_fetch_image(outcome) ==
    IF outcome = "data" THEN {<<"i">>}
    ELSE IF outcome = "empty" THEN {<<>>}
    ELSE {}

\* the truth value of an Optional[bytes]
Truthy(data) == data # {} /\ data # {<<>>}

\* every image the rule asks for embedded, fetched or not
EmbeddedImagesAllRequested(rule, env) ==
    (IF rule.include_thumbnail THEN {"thumbnail"} ELSE {})
        \cup (IF rule.include_snapshot THEN {"snapshot"} ELSE {})

\* the keys of embedded_images that _send_notification builds
embedded_images(rule, env) ==
    (IF rule.include_thumbnail /\ Truthy(_fetch_image(env.thumbnail))
     THEN {"thumbnail"} ELSE {})
        \cup (IF rule.include_snapshot /\ Truthy(_fetch_image(env.snapshot))
              THEN {"snapshot"} ELSE {})

\* NotificationManager._send_notification: "raise" when the subject
\* template names a field format() is not given (KeyError, before any
\* image is fetched), otherwise the value of send_html_email, called with
\* the images that were fetched
_send_notification(rule, env) ==
    IF ~(rule.subject_template \subseteq SubjectFields)
    THEN [result |-> "raise", attempted |-> FALSE, embedded_images |-> {}]
    ELSE [result |-> IF send_html_email(rule.email_to, env.smtp_ok) THEN "ok" ELSE "fail",
          attempted |-> TRUE,
          embedded_images |-> embedded_images(rule, env)]

(***************************************************************************)
(* NotificationManager._process_rule.  st is the state the call runs in:   *)
(* the hysteresis map, the clock, the mails delivered, and the record of   *)
(* the rules processed so far; env is what the mail server does: smtp_ok   *)
(* and the time the send takes, and what the two image requests give.                                            *)
(***************************************************************************)
\* what the mail server does with one send
SendEnvs == [smtp_ok : BOOLEAN, duration : {0, 1}, thumbnail : {"data"}, snapshot : {"data"}]

NoSend == [smtp_ok |-> FALSE, duration |-> 0, thumbnail |-> "data", snapshot |-> "data"]

\* the hysteresis entry of a key as an Optional
Entry(m, key) == IF key \in DOMAIN m THEN {m[key]} ELSE {}

\* _process_rule checking quiet hours before the score
ReturnsAtQuietFirst(m, t, event, rule, is_new, is_end) ==
    LET camera == event.after.camera
        label == event.after.label
        score == event.after.top_score
    IN  IF is_new /\ ~rule.notify_on_new THEN "phase"
        ELSE IF is_end /\ ~rule.notify_on_end THEN "phase"
        ELSE IF ~is_new /\ ~is_end THEN "phase"
        ELSE IF is_quiet_hours(rule, t) THEN "quiet"
        ELSE IF score < rule.min_score THEN "score"
        ELSE IF ~can_notify(m, camera, label, rule.hysteresis_seconds, t).value
             THEN "hysteresis"
        ELSE "none"

\* _process_rule comparing the event's current score with min_score
ReturnsAtCurrentScore(m, t, event, rule, is_new, is_end) ==
    LET camera == event.after.camera
        label == event.after.label
        score == event.after.score
    IN  IF is_new /\ ~rule.notify_on_new THEN "phase"
        ELSE IF is_end /\ ~rule.notify_on_end THEN "phase"
        ELSE IF ~is_new /\ ~is_end THEN "phase"
        ELSE IF score < rule.min_score THEN "score"
        ELSE IF is_quiet_hours(rule, t) THEN "quiet"
        ELSE IF ~can_notify(m, camera, label, rule.hysteresis_seconds, t).value
             THEN "hysteresis"
        ELSE "none"

\* the gate at which _process_rule returns, "none" when it goes on to send
ReturnsAt(m, t, event, rule, is_new, is_end) ==
    LET camera == event.after.camera
        label == event.after.label
        score == event.after.top_score
    IN  IF is_new /\ ~rule.notify_on_new THEN "phase"
        ELSE IF is_end /\ ~rule.notify_on_end THEN "phase"
        ELSE IF ~is_new /\ ~is_end THEN "phase"
        ELSE IF score < rule.min_score THEN "score"
        ELSE IF is_quiet_hours(rule, t) THEN "quiet"
        ELSE IF ~can_notify(m, camera, label, rule.hysteresis_seconds, t).value
             THEN "hysteresis"
        ELSE "none"

\* _process_rule recording whatever the send returned
RecordsAfterAnySend(success) == TRUE

\* whether _process_rule records the notification, given what
\* _send_notification returned
RecordsAfter(success) == success = "ok"

_process_rule(st, event, rule, is_new, is_end, env) ==
    LET camera == event.after.camera
        label == event.after.label
        key == get_key(camera, label)
        gate == ReturnsAt(st.map, st.clock, event, rule, is_new, is_end)
        notification == _send_notification(rule, env)
        success == IF gate = "none" THEN notification.result ELSE "skipped"
        done_at == IF gate = "none" THEN st.clock + env.duration ELSE st.clock
        map_after == IF gate = "none" /\ RecordsAfter(success)
                     THEN record_notification(st.map, camera, label, done_at)
                     ELSE st.map
        entry == [at |-> st.clock,
                  before |-> Entry(st.map, key),
                  delivered_before |-> Entry(st.delivered, key),
                  gate |-> gate,
                  sent |-> (gate = "none"),
                  result |-> success,
                  attempted |-> (gate = "none" /\ notification.attempted),
                  embedded |-> IF gate = "none" THEN notification.embedded_images ELSE {},
                  done_at |-> done_at,
                  after |-> Entry(map_after, key)]
    IN  [map |-> map_after,
         clock |-> done_at,
         delivered |-> IF success = "ok" THEN DictSet(st.delivered, key, done_at)
                       ELSE st.delivered,
         entries |-> Append(st.entries, entry),
         raised |-> (success = "raise")]

\* the loop of process_event over the matching rules from rule i on; an
\* exception leaves the loop (process_event catches nothing).  The value
\* is the set of states the loop can end in, one for each thing the mail
\* server can do with each send.
RECURSIVE ProcessLoop(_, _, _, _, _, _)
ProcessLoop(st, event, matching_rules, i, is_new, is_end) ==
    IF i > Len(matching_rules) \/ st.raised THEN {st}
    ELSE LET rule == matching_rules[i]
             sends == ReturnsAt(st.map, st.clock, event, rule, is_new, is_end) = "none"
             envs == IF sends THEN SendEnvs ELSE {NoSend}
         IN  UNION {ProcessLoop(_process_rule(st, event, rule, is_new, is_end, env),
                                event, matching_rules, i + 1, is_new, is_end) :
                        env \in envs}

process_event(st, event, rs) ==
    LET is_new == event.event_type = "NEW"
        is_end == event.event_type = "END"
        matching_rules == get_matching_rules(rs, event)
    IN  ProcessLoop(st, event, matching_rules, 1, is_new, is_end)

(***************************************************************************)
(* Inputs of the rule matcher: rule lists and events.                      *)
(***************************************************************************)
Rule(camera, object_type, zones, enabled) ==
    NotificationRule([RuleDefaults EXCEPT !.camera = camera,
                                          !.object_type = object_type,
                                          !.zones = zones,
                                          !.enabled = enabled])

MatchRuleSet ==
    {Rule(<<"a", "|", "b">>, <<"p">>, {}, TRUE),
     Rule(<<".", "*">>, <<"p">>, {"yard"}, TRUE),
     Rule(<<"a">>, <<".", "*">>, {}, FALSE),
     Rule(<<"a", "b">>, <<".", "*">>, {"yard", "street"}, TRUE),
     Rule(<<"a", ".", "*">>, <<"c">>, {}, TRUE)}

RECURSIVE ListsUpTo(_, _)
ListsUpTo(S, n) ==
    IF n = 0 THEN {<<>>}
    ELSE LET shorter == ListsUpTo(S, n - 1)
         IN  shorter \cup {Append(l, x) : l \in shorter, x \in S}

MatchEvents ==
    {[event_type |-> "NEW",
      after |-> [camera |-> c, label |-> l, top_score |-> 1, current_zones |-> z]] :
        c \in StringsUpTo(NameAlphabet, MaxNameLen),
        l \in {<<"p">>, <<"P">>, <<"p", "c">>, <<"c">>},
        z \in {{}, {"yard"}, {"porch"}}}

\* the doorbell monitor and the camera connectivity check before they run,
\* and the notification core before it is used
DoorbellIdle ==
    /\ driver = <<>>
    /\ monitor = <<>>
    /\ poll = <<>>

ConnectivityIdle ==
    /\ cameras = <<>>
    /\ commands = <<>>

\* the Frigate API helper, the LAN monitor, the presence workers and the
\* system-management HTTP services before they run
ServicesIdle ==
    /\ api = <<>>
    /\ lanmon = <<>>
    /\ worker = <<>>
    /\ server = <<>>

CoreIdle ==
    /\ rules = <<>>
    /\ last_notification = [k \in {} |-> 0]
    /\ delivered = [k \in {} |-> 0]
    /\ log = <<>>
    /\ matching = <<>>
    /\ ret = <<>>
    /\ arg = <<>>
    /\ lock = {}
    /\ pc = <<>>
    /\ local = <<>>

NoCall == <<>>

InitMatch ==
    /\ rules \in ListsUpTo(MatchRuleSet, MaxRules)
    /\ last_notification = EmptyDict
    /\ now = 0
    /\ delivered = EmptyDict
    /\ log = NoCall
    /\ matching = NoCall
    /\ ret = NoCall
    /\ arg \in MatchEvents
    /\ lock = {}
    /\ pc = <<>>
    /\ local = <<>>
    /\ DoorbellIdle
    /\ ConnectivityIdle
    /\ ServicesIdle

\* the call get_matching_rules(arg) of NotificationManager
GetMatchingRules ==
    /\ matching = NoCall
    /\ matching' = <<[event |-> arg, value |-> get_matching_rules(rules, arg)]>>
    /\ UNCHANGED <<rules, last_notification, now, delivered, log, ret, arg, lock, pc, local, periphery>>

NextMatch == GetMatchingRules

SpecMatch == InitMatch /\ [][NextMatch]_vars

(***************************************************************************)
(* The notification manager at work: event messages arrive one at a time   *)
(* (the MQTT client's callback thread) and the clock advances.             *)
(***************************************************************************)
DispatchRule(camera, email_to, hysteresis_seconds, on_new, on_end, quiet, template) ==
    NotificationRule([RuleDefaults EXCEPT !.camera = camera,
                                          !.object_type = <<"p">>,
                                          !.email_to = email_to,
                                          !.hysteresis_seconds = hysteresis_seconds,
                                          !.notify_on_new = on_new,
                                          !.notify_on_end = on_end,
                                          !.quiet_hours_start = quiet[1],
                                          !.quiet_hours_end = quiet[2],
                                          !.subject_template = template])

DispatchRuleSet ==
    {DispatchRule(<<".", "*">>, <<"me">>, 2, TRUE, FALSE, <<{}, {}>>, {"camera", "label"}),
     DispatchRule(<<"a">>, <<"you">>, 1, TRUE, TRUE, <<{1}, {1}>>, {"camera", "label"}),
     DispatchRule(<<".", "*">>, <<>>, 1, TRUE, FALSE, <<{}, {}>>, {"camera", "label"}),
     DispatchRule(<<"a", "|", "b">>, <<"me">>, 0, FALSE, TRUE, <<{2}, {2}>>, {"camera", "name"})}

\* the decoded JSON payloads of event messages: "type" and "top_score" may
\* be absent
Payload(type, camera, top_score) ==
    [type |-> type,
     after |-> [camera |-> camera, label |-> <<"p">>, current_zones |-> {},
                top_score |-> top_score]]

EventPayloads ==
    {Payload(t, <<"a">>, x) : t \in {TypeNew, TypeEnd}, x \in {0, 1}}
    \cup {Payload(t, <<"a">>, 1) : t \in {TypeNewUpper, TypeUpdate, TypeOther}}
    \cup {Payload(TypeNew, <<"b">>, 1),
          [after |-> [camera |-> <<"a">>, label |-> <<"p">>, current_zones |-> {},
                      top_score |-> 1]],
          [type |-> TypeNew,
           after |-> [camera |-> <<"a">>, label |-> <<"p">>, current_zones |-> {}]]}

Init ==
    /\ rules \in ListsUpTo(DispatchRuleSet, MaxRules)
    /\ last_notification = EmptyDict
    /\ now = 0
    /\ delivered = EmptyDict
    /\ log = NoCall
    /\ matching = NoCall
    /\ ret = NoCall
    /\ arg = NoCall
    /\ lock = {}
    /\ pc = <<>>
    /\ local = <<>>
    /\ DoorbellIdle
    /\ ConnectivityIdle
    /\ ServicesIdle

\* FrigateMQTTClient._handle_event_message on a payload that decoded:
\* from_dict, then EventLoop._on_event, NotificationHandler.handle_event
\* and NotificationManager.process_event
HandleEventMessage(data) ==
    \E event \in {FrigateEvent_from_dict(data)} :
    \E st \in process_event([map |-> last_notification, clock |-> now,
                             delivered |-> delivered, entries |-> <<>>,
                             raised |-> FALSE], event, rules) :
        /\ st.clock <= MaxTime
        /\ last_notification' = st.map
        /\ now' = st.clock
        /\ delivered' = st.delivered
        /\ log' = <<[type |-> IF "type" \in DOMAIN data THEN {data.type} ELSE {},
                     event |-> event,
                     map_before |-> last_notification,
                     entries |-> st.entries,
                     raised |-> st.raised]>>
        /\ UNCHANGED <<rules, matching, ret, arg, lock, pc, local, periphery>>

\* time passes
Tick ==
    /\ now < MaxTime
    /\ now' = now + 1
    /\ UNCHANGED <<rules, last_notification, delivered, log, matching, ret, arg, lock, pc, local, periphery>>

Next ==
    \/ \E data \in EventPayloads : HandleEventMessage(data)
    \/ Tick

Spec == Init /\ [][Next]_vars

(***************************************************************************)
(* The HysteresisTracker on its own: one caller making any sequence of     *)
(* calls while the clock advances.  ret holds the last two calls, the      *)
(* latest last.                                                            *)
(***************************************************************************)
TrackerCameras == {<<"a">>, <<"b">>}
TrackerLabel == <<"p">>
Intervals == {0, 1, 2}

LastTwo(calls, call) ==
    IF calls = <<>> THEN <<call>> ELSE <<calls[Len(calls)], call>>

Call(op, camera, hysteresis_seconds, value, unchanged) ==
    [op |-> op, camera |-> camera, object_type |-> TrackerLabel,
     hysteresis_seconds |-> hysteresis_seconds, at |-> now,
     value |-> value, unchanged |-> unchanged]

InitTracker ==
    /\ rules = <<>>
    /\ last_notification = EmptyDict
    /\ now = 0
    /\ delivered = EmptyDict
    /\ log = NoCall
    /\ matching = NoCall
    /\ ret = NoCall
    /\ arg = NoCall
    /\ lock = {}
    /\ pc = <<>>
    /\ local = <<>>
    /\ DoorbellIdle
    /\ ConnectivityIdle
    /\ ServicesIdle

TrackerCanNotify(camera, hysteresis_seconds) ==
    \E r \in {can_notify(last_notification, camera, TrackerLabel, hysteresis_seconds, now)} :
        /\ last_notification' = r.last_notification
        /\ ret' = LastTwo(ret, Call("can_notify", camera, hysteresis_seconds, r.value,
                                    r.last_notification = last_notification))
        /\ UNCHANGED <<rules, now, delivered, log, matching, arg, lock, pc, local, periphery>>

TrackerRecordNotification(camera) ==
    /\ last_notification' = record_notification(last_notification, camera, TrackerLabel, now)
    /\ ret' = LastTwo(ret, Call("record_notification", camera, 0, FALSE, FALSE))
    /\ UNCHANGED <<rules, now, delivered, log, matching, arg, lock, pc, local, periphery>>

TrackerClear ==
    /\ last_notification' = clear(last_notification)
    /\ ret' = LastTwo(ret, Call("clear", <<>>, 0, FALSE, FALSE))
    /\ UNCHANGED <<rules, now, delivered, log, matching, arg, lock, pc, local, periphery>>

NextTracker ==
    \/ \E camera \in TrackerCameras, h \in Intervals : TrackerCanNotify(camera, h)
    \/ \E camera \in TrackerCameras : TrackerRecordNotification(camera)
    \/ TrackerClear
    \/ Tick

SpecTracker == InitTracker /\ [][NextTracker]_vars

(***************************************************************************)
(* The HysteresisTracker under concurrent callers.  Each thread runs one   *)
(* method at a time; pc[t] names the source line the thread executes next, *)
(* local[t] holds the method's arguments and local variables, and lock is  *)
(* the set of threads inside a "with self._lock" block.                    *)
(***************************************************************************)
Threads == {"t1", "t2"}
ConcCameras == {<<"a">>}
ConcIntervals == {1, 2}

Idle == [camera |-> <<>>, hysteresis_seconds |-> 0, current_time |-> 0, last_time |-> 0]

InitConc ==
    /\ rules = <<>>
    /\ last_notification = EmptyDict
    /\ now = 0
    /\ delivered = EmptyDict
    /\ log = NoCall
    /\ matching = NoCall
    /\ ret = [t \in Threads |-> {}]
    /\ arg = NoCall
    /\ lock = {}
    /\ pc = [t \in Threads |-> "idle"]
    /\ local = [t \in Threads |-> Idle]
    /\ DoorbellIdle
    /\ ConnectivityIdle
    /\ ServicesIdle

\* entering "with self._lock" blocks until no thread holds the lock
Acquire(t) ==
    /\ lock = {}
    /\ lock' = {t}

\* leaving "with self._lock"
Release(t) ==
    lock' = lock \ {t}

\* lines 689-690: the key and the clock are read before the lock is taken
CanNotifyEnter(t, camera, hysteresis_seconds) ==
    /\ pc[t] = "idle"
    /\ pc' = [pc EXCEPT ![t] = "can_notify_692"]
    /\ local' = [local EXCEPT ![t] = [camera |-> camera, hysteresis_seconds |-> hysteresis_seconds,
                                      current_time |-> now, last_time |-> 0]]
    /\ UNCHANGED <<rules, last_notification, now, delivered, log, matching, ret, arg, lock, periphery>>

CanNotifyLock(t) ==
    /\ pc[t] = "can_notify_692"
    /\ Acquire(t)
    /\ pc' = [pc EXCEPT ![t] = "can_notify_693"]
    /\ UNCHANGED <<rules, last_notification, now, delivered, log, matching, ret, arg, local, periphery>>

CanNotifyRead(t) ==
    /\ pc[t] = "can_notify_693"
    /\ local' = [local EXCEPT ![t].last_time =
                     DictGet(last_notification, get_key(local[t].camera, TrackerLabel), 0)]
    /\ pc' = [pc EXCEPT ![t] = "can_notify_694"]
    /\ UNCHANGED <<rules, last_notification, now, delivered, log, matching, ret, arg, lock, periphery>>

CanNotifyReturn(t) ==
    /\ pc[t] = "can_notify_694"
    /\ ret' = [ret EXCEPT ![t] =
                   {local[t].current_time - local[t].last_time >= local[t].hysteresis_seconds}]
    /\ Release(t)
    /\ pc' = [pc EXCEPT ![t] = "idle"]
    /\ local' = [local EXCEPT ![t] = Idle]
    /\ UNCHANGED <<rules, last_notification, now, delivered, log, matching, arg, periphery>>

RecordEnter(t, camera) ==
    /\ pc[t] = "idle"
    /\ pc' = [pc EXCEPT ![t] = "record_notification_701"]
    /\ local' = [local EXCEPT ![t] = [Idle EXCEPT !.camera = camera]]
    /\ UNCHANGED <<rules, last_notification, now, delivered, log, matching, ret, arg, lock, periphery>>

RecordLock(t) ==
    /\ pc[t] = "record_notification_701"
    /\ Acquire(t)
    /\ pc' = [pc EXCEPT ![t] = "record_notification_702"]
    /\ UNCHANGED <<rules, last_notification, now, delivered, log, matching, ret, arg, local, periphery>>

RecordWrite(t) ==
    /\ pc[t] = "record_notification_702"
    /\ last_notification' = record_notification(last_notification, local[t].camera, TrackerLabel, now)
    /\ Release(t)
    /\ pc' = [pc EXCEPT ![t] = "idle"]
    /\ local' = [local EXCEPT ![t] = Idle]
    /\ UNCHANGED <<rules, now, delivered, log, matching, ret, arg, periphery>>

ClearLock(t) ==
    /\ pc[t] = "idle"
    /\ Acquire(t)
    /\ pc' = [pc EXCEPT ![t] = "clear_707"]
    /\ UNCHANGED <<rules, last_notification, now, delivered, log, matching, ret, arg, local, periphery>>

ClearWrite(t) ==
    /\ pc[t] = "clear_707"
    /\ last_notification' = clear(last_notification)
    /\ Release(t)
    /\ pc' = [pc EXCEPT ![t] = "idle"]
    /\ UNCHANGED <<rules, now, delivered, log, matching, ret, arg, local, periphery>>

NextConc ==
    \/ \E t \in Threads, camera \in ConcCameras, h \in ConcIntervals : CanNotifyEnter(t, camera, h)
    \/ \E t \in Threads : CanNotifyLock(t)
    \/ \E t \in Threads : CanNotifyRead(t)
    \/ \E t \in Threads : CanNotifyReturn(t)
    \/ \E t \in Threads, camera \in ConcCameras : RecordEnter(t, camera)
    \/ \E t \in Threads : RecordLock(t)
    \/ \E t \in Threads : RecordWrite(t)
    \/ \E t \in Threads : ClearLock(t)
    \/ \E t \in Threads : ClearWrite(t)
    \/ Tick

SpecConc == InitConc /\ [][NextConc]_vars

(***************************************************************************)
(* NotificationRule.is_quiet_hours on its own: one rule with any           *)
(* quiet-hours pair, asked at any clock reading.                           *)
(***************************************************************************)
OptionalTimes == {{}} \cup {{h} : h \in 0..(DayLen - 1)}

InitQuiet ==
    /\ rules \in {<<NotificationRule([RuleDefaults EXCEPT !.quiet_hours_start = s, !.quiet_hours_end = e])>> : s \in OptionalTimes, e \in OptionalTimes}
    /\ last_notification = EmptyDict
    /\ now = 0
    /\ delivered = EmptyDict
    /\ log = NoCall
    /\ matching = NoCall
    /\ ret = NoCall
    /\ arg = NoCall
    /\ lock = {}
    /\ pc = <<>>
    /\ local = <<>>
    /\ DoorbellIdle
    /\ ConnectivityIdle
    /\ ServicesIdle

IsQuietHours ==
    /\ ret' = <<[at |-> now, value |-> is_quiet_hours(rules[1], now)]>>
    /\ UNCHANGED <<rules, last_notification, now, delivered, log, matching, arg, lock, pc, local, periphery>>

NextQuiet ==
    \/ IsQuietHours
    \/ Tick

SpecQuiet == InitQuiet /\ [][NextQuiet]_vars

(***************************************************************************)
(* The doorbell monitor (doorbell_monitor.py): one ReolinkDriver polled by *)
(* the loop of DoorbellMonitor.run.  A sample is what one GetEvents        *)
(* request gives: an exception (transport error, a body that is not JSON), *)
(* a status other than 200, a reply without visitor data, or the visitor's *)
(* alarm_state.  The session token only travels in the request and is not  *)
(* held.                                                                   *)
(***************************************************************************)
MaxDebounce == 1

MaxPollTime == 5

max_reconnect_attempts == 5

Samples ==
    [kind : {"exception", "status", "novisitor"}, alarm_state : {0}]
        \cup [kind : {"visitor"}, alarm_state : {0, 1}]

\* check_doorbell_press forgetting the alarm state when the sample fails
CheckDoorbellPressForgetting(d, sample, current_time) ==
    IF sample.kind = "visitor"
    THEN IF /\ sample.alarm_state = 1
            /\ d._last_alarm_state = 0
            /\ current_time - d.last_event_time > d.debounce_time
         THEN [driver |-> [d EXCEPT !.last_event_time = current_time,
                                    !._last_alarm_state = sample.alarm_state],
               value |-> TRUE, raised |-> FALSE]
         ELSE [driver |-> [d EXCEPT !._last_alarm_state = sample.alarm_state],
               value |-> FALSE, raised |-> FALSE]
    ELSE [driver |-> [d EXCEPT !._last_alarm_state = 0], value |-> FALSE, raised |-> FALSE]

\* check_doorbell_press leaving the previous state at 0 when the debounce
\* window suppresses a rising edge
CheckDoorbellPressKeepingEdge(d, sample, current_time) ==
    IF sample.kind = "visitor"
    THEN IF sample.alarm_state = 1 /\ d._last_alarm_state = 0
         THEN IF current_time - d.last_event_time > d.debounce_time
              THEN [driver |-> [d EXCEPT !.last_event_time = current_time,
                                         !._last_alarm_state = sample.alarm_state],
                    value |-> TRUE, raised |-> FALSE]
              ELSE [driver |-> d, value |-> FALSE, raised |-> FALSE]
         ELSE [driver |-> [d EXCEPT !._last_alarm_state = sample.alarm_state],
               value |-> FALSE, raised |-> FALSE]
    ELSE [driver |-> d, value |-> FALSE, raised |-> FALSE]

\* ReolinkDriver.check_doorbell_press: every exception is caught inside
check_doorbell_press(d, sample, current_time) ==
    IF sample.kind = "visitor"
    THEN IF /\ sample.alarm_state = 1
            /\ d._last_alarm_state = 0
            /\ current_time - d.last_event_time > d.debounce_time
         THEN [driver |-> [d EXCEPT !.last_event_time = current_time,
                                    !._last_alarm_state = sample.alarm_state],
               value |-> TRUE, raised |-> FALSE]
         ELSE [driver |-> [d EXCEPT !._last_alarm_state = sample.alarm_state],
               value |-> FALSE, raised |-> FALSE]
    ELSE [driver |-> d, value |-> FALSE, raised |-> FALSE]

\* DoorbellMonitor.publish_doorbell_event: the messages that got out when
\* the publish numbered fail_at raised (0: none did)
publish_doorbell_event(fail_at) ==
    LET messages == <<"ON", "new", "OFF">>
    IN  IF fail_at = 0 THEN messages ELSE SubSeq(messages, 1, fail_at - 1)

PublishOutcomes == 0..3

\* the latest sample that carried an alarm_state, and the time of the
\* latest press reported, as of the last pass of the loop
Observed == IF poll = <<>> THEN {} ELSE poll[1].observed

LastPress == IF poll = <<>> THEN {} ELSE poll[1].last_press

InitDoorbell ==
    /\ CoreIdle
    /\ ConnectivityIdle
    /\ ServicesIdle
    /\ now = 0
    /\ driver \in [_last_alarm_state : {0}, last_event_time : {0}, debounce_time : 0..MaxDebounce]
    /\ monitor = [camera_enabled_state |-> {}, reconnect_attempts |-> 0]
    /\ poll = <<>>

\* the doorbell of a camera whose enabled/state is unknown left alone
IsEnabledDefaultFalse(camera_enabled_state) ==
    IF camera_enabled_state = {} THEN FALSE ELSE TheValue(camera_enabled_state)

\* self.camera_enabled_state.get(camera_name, True)
is_enabled(camera_enabled_state) ==
    IF camera_enabled_state = {} THEN TRUE ELSE TheValue(camera_enabled_state)

\* one pass of the loop body of DoorbellMonitor.run for the driver
MonitorPoll(sample, fail_at) ==
    LET enabled == is_enabled(monitor.camera_enabled_state)
        r == IF enabled THEN check_doorbell_press(driver, sample, now)
             ELSE [driver |-> driver, value |-> FALSE, raised |-> FALSE]
        attempts == monitor.reconnect_attempts + 1
        relogin == r.raised /\ attempts < max_reconnect_attempts
    IN  /\ r.value \/ fail_at = 0
        /\ driver' = r.driver
        /\ monitor' = [monitor EXCEPT !.reconnect_attempts =
                           IF ~enabled THEN @
                           ELSE IF ~r.raised THEN 0
                           ELSE IF attempts >= max_reconnect_attempts THEN 0
                           ELSE attempts]
        /\ poll' = <<[polled |-> enabled, enabled_state |-> monitor.camera_enabled_state, sample |-> sample, at |-> now,
                      before |-> driver, value |-> r.value, raised |-> r.raised,
                      attempts_before |-> monitor.reconnect_attempts, relogin |-> relogin,
                      published |-> IF r.value THEN publish_doorbell_event(fail_at) ELSE <<>>,
                      observed_before |-> Observed, press_before |-> LastPress,
                      observed |-> IF enabled /\ sample.kind = "visitor"
                                   THEN {sample.alarm_state} ELSE Observed,
                      last_press |-> IF r.value THEN {now} ELSE LastPress]>>
        /\ UNCHANGED <<core, now, connectivity, services>>

\* DoorbellMonitor._on_mqtt_message for the camera's enabled/state topic
\* (a camera coming back also logs the driver in again)
OnMqttMessage(payload) ==
    /\ monitor' = [monitor EXCEPT !.camera_enabled_state = {payload = "ON"}]
    /\ UNCHANGED <<core, now, driver, poll, connectivity, services>>

\* time.sleep(self.poll_interval): time passes between two passes
Sleep ==
    /\ now < MaxPollTime
    /\ now' = now + 1
    /\ UNCHANGED <<core, periphery>>

NextDoorbell ==
    \/ \E sample \in Samples, fail_at \in PublishOutcomes : MonitorPoll(sample, fail_at)
    \/ \E payload \in {"ON", "OFF"} : OnMqttMessage(payload)
    \/ Sleep

SpecDoorbell == InitDoorbell /\ [][NextDoorbell]_vars

(***************************************************************************)
(* The MQTT client's message callback for the events topic:                *)
(* FrigateMQTTClient._on_message, _handle_event_message, then the          *)
(* registered handler (EventLoop._on_event, which hands the event to       *)
(* NotificationManager.process_event).  A payload is a text that either is *)
(* no JSON document or decodes to a JSON object.                           *)
(***************************************************************************)
AfterKeys == {"camera", "label", "score", "top_score", "current_zones", "entered_zones"}

\* the "after" object of a payload that carries just the keys in S
AfterWith(S) ==
    [k \in S |-> CASE k = "camera" -> <<"a">>
                   [] k = "label" -> <<"p">>
                   [] k = "score" -> 1
                   [] k = "top_score" -> 1
                   [] k = "current_zones" -> {"yard"}
                   [] k = "entered_zones" -> {"yard", "street"}]

\* the decoded payloads: a new event with any of the scores and zone lists
\* missing, every type with all keys of "after" or none, and objects
\* without "after"
JsonObjects ==
    {[type |-> TypeNew, after |-> AfterWith({"camera", "label"} \cup S)] :
         S \in SUBSET (AfterKeys \ {"camera", "label"})}
        \cup {[type |-> t, after |-> AfterWith(S)] :
                  t \in {TypeNewUpper, TypeUpdate, TypeEnd, TypeOther},
                  S \in {AfterKeys, {}}}
        \cup {[after |-> AfterWith(S)] : S \in {AfterKeys, {"camera", "label"}, {}}}
        \cup {[type |-> TypeNew], [k \in {} |-> 0]}

NotJson == [valid |-> FALSE]

MessagePayloads == {NotJson} \cup {[valid |-> TRUE, value |-> v] : v \in JsonObjects}

\* json.loads reading a text that is no JSON as an event without details
JsonLoadsLenient(payload) ==
    IF payload.valid THEN [error |-> "none", value |-> payload.value]
    ELSE [error |-> "none", value |-> [after |-> [k \in {} |-> 0]]]

\* json.loads(payload)
json_loads(payload) ==
    IF payload.valid THEN [error |-> "none", value |-> payload.value]
    ELSE [error |-> "JSONDecodeError", value |-> [k \in {} |-> 0]]

\* the except clauses of _handle_event_message: json.JSONDecodeError, then
\* Exception
Catches(error) == error = "JSONDecodeError" \/ error # "none"

\* the try block of _handle_event_message up to the handlers: the event, or
\* the exception raised
ParseEventMessage(payload) ==
    LET decoded == json_loads(payload)
    IN  IF decoded.error # "none" THEN [error |-> decoded.error, event |-> {}]
        ELSE IF "after" \notin DOMAIN decoded.value
             THEN [error |-> "KeyError", event |-> {}]
        ELSE [error |-> "none", event |-> {FrigateEvent_from_dict(decoded.value)}]

ClientRuleSet ==
    {DispatchRule(<<".", "*">>, <<"me">>, 0, TRUE, TRUE, <<{}, {}>>, {"camera", "label"}),
     DispatchRule(<<"a">>, <<"me">>, 1, TRUE, FALSE, <<{}, {}>>, {"camera", "name"})}

InitClient ==
    /\ rules \in {<<r>> : r \in ClientRuleSet}
    /\ last_notification = EmptyDict
    /\ now = 0
    /\ delivered = EmptyDict
    /\ log = NoCall
    /\ matching = NoCall
    /\ ret = NoCall
    /\ arg = NoCall
    /\ lock = {}
    /\ pc = <<>>
    /\ local = <<>>
    /\ DoorbellIdle
    /\ ConnectivityIdle
    /\ ServicesIdle

\* whether a message that was no JSON has been received
DroppedBefore == log # NoCall /\ (log[1].dropped_before \/ log[1].error = "JSONDecodeError")

\* FrigateMQTTClient._on_message for a message on the events topic
OnMessage(payload) ==
    \E parsed \in {ParseEventMessage(payload)} :
    \E st \in IF parsed.event = {}
              THEN {[map |-> last_notification, clock |-> now, delivered |-> delivered,
                     entries |-> <<>>, raised |-> FALSE]}
              ELSE process_event([map |-> last_notification, clock |-> now,
                                  delivered |-> delivered, entries |-> <<>>,
                                  raised |-> FALSE], TheValue(parsed.event), rules) :
        /\ st.clock <= MaxTime
        /\ last_notification' = st.map
        /\ now' = st.clock
        /\ delivered' = st.delivered
        /\ log' = <<[payload |-> payload,
                     error |-> parsed.error,
                     handled |-> parsed.event,
                     map_before |-> last_notification,
                     entries |-> st.entries,
                     raised |-> st.raised,
                     escaped |-> (parsed.error # "none" /\ ~Catches(parsed.error)),
                     dropped_before |-> DroppedBefore]>>
        /\ UNCHANGED <<rules, matching, ret, arg, lock, pc, local, periphery>>

NextClient == \E payload \in MessagePayloads : OnMessage(payload)

SpecClient == InitClient /\ [][NextClient]_vars

(***************************************************************************)
(* The camera connectivity check (CameraConnectivityHandler) and the MQTT  *)
(* client's record of each camera's enabled/state.  arg holds what the     *)
(* handler was constructed with: the exceptions of the configuration, in   *)
(* the order of the dictionary, and the state of the MQTT client.          *)
(***************************************************************************)
CameraNames == {"cam1", "cam2"}

StateEnabled == <<"e", "n", "a", "b", "l", "e", "d">>
StateEnabledCapital == <<"E", "n", "a", "b", "l", "e", "d">>
StateDisabled == <<"d", "i", "s", "a", "b", "l", "e", "d">>
StateInvalid == <<"a", "u", "t", "o">>

ExceptionValues == {StateEnabled, StateEnabledCapital, StateDisabled, StateInvalid}

\* the lists of distinct names, as a dictionary keeps its keys
NameLists ==
    {<<>>} \cup {<<c>> : c \in CameraNames}
           \cup {l \in {<<c, d>> : c \in CameraNames, d \in CameraNames} : l[1] # l[2]}

Names(list) == {list[i] : i \in 1..Len(list)}

\* the outcome of subprocess.run(['nc', '-z', '-w', '1', <ip>, '554']): exit
\* code 0, another exit code, TimeoutExpired, FileNotFoundError (no nc), or
\* another exception
ProbeResults == {"open", "closed", "timeout", "missing", "error"}

\* the timeout of the probe taken for an open port
CheckPortTimeoutIsOnline(result) == result \in {"open", "timeout"}

\* CameraConnectivityHandler._check_port: every exception is caught and
\* gives False
_check_port(result) == result = "open"

\* FrigateMQTTClient.enable_camera / disable_camera through
\* _publish_command: nothing is published while not connected
PublishCommand(mqtt_client, camera, enable, is_exception) ==
    IF mqtt_client = "connected"
    THEN <<[camera |-> camera, enable |-> enable, is_exception |-> is_exception]>>
    ELSE <<>>

\* CameraConnectivityHandler._update_camera_state: the commands published
_update_camera_state(mqtt_client, camera_name, is_online, is_exception) ==
    IF mqtt_client = "none" THEN <<>>
    ELSE PublishCommand(mqtt_client, camera_name, is_online, is_exception)

\* the loop over self.exceptions.items() from entry i on
RECURSIVE ApplyExceptions(_, _, _)
ApplyExceptions(handler, i, sent) ==
    IF i > Len(handler.exceptions) THEN sent
    ELSE LET camera_name == handler.exceptions[i][1]
             desired_state == Lower(handler.exceptions[i][2])
             published ==
                 IF desired_state = StateEnabled
                 THEN _update_camera_state(handler.mqtt_client, camera_name, TRUE, TRUE)
                 ELSE IF desired_state = StateDisabled
                 THEN _update_camera_state(handler.mqtt_client, camera_name, FALSE, TRUE)
                 ELSE <<>>
         IN  ApplyExceptions(handler, i + 1, sent \o published)

\* the loop over cameras_to_check.items() from camera i of the discovered
\* ones on
RECURSIVE CheckCameras(_, _, _, _, _)
\* no camera counting as excepted when the cameras to probe are chosen
NeverInExceptions(handler, camera_name) == FALSE

\* name in self.exceptions
InExceptions(handler, camera_name) ==
    \E k \in 1..Len(handler.exceptions) : handler.exceptions[k][1] = camera_name

CheckCameras(handler, discovered, probe, i, sent) ==
    IF i > Len(discovered) THEN sent
    ELSE LET camera_name == discovered[i]
             published ==
                 IF InExceptions(handler, camera_name) THEN <<>>
                 ELSE _update_camera_state(handler.mqtt_client, camera_name,
                                           _check_port(probe[camera_name]), FALSE)
         IN  CheckCameras(handler, discovered, probe, i + 1, sent \o published)

\* CameraConnectivityHandler._check_connectivity: the commands published,
\* given the cameras get_cameras_with_ip returned and what each probe gives
_check_connectivity(handler, discovered, probe) ==
    IF discovered = <<>> THEN <<>>
    ELSE CheckCameras(handler, discovered, probe, 1, ApplyExceptions(handler, 1, <<>>))

ExceptionConfigs ==
    {<<>>} \cup {<<<<c, v>>>> : c \in CameraNames, v \in ExceptionValues}
           \cup {<<<<"cam1", v>>, <<"cam2", w>>>> : v \in ExceptionValues, w \in {StateEnabled, StateDisabled}}
           \cup {<<<<"cam2", StateDisabled>>, <<"cam1", StateEnabled>>>>}

InitConnectivity ==
    /\ rules = <<>>
    /\ last_notification = EmptyDict
    /\ now = 0
    /\ delivered = EmptyDict
    /\ log = NoCall
    /\ matching = NoCall
    /\ ret = NoCall
    /\ arg \in [exceptions : ExceptionConfigs, mqtt_client : {"none", "disconnected", "connected"}]
    /\ lock = {}
    /\ pc = <<>>
    /\ local = <<>>
    /\ DoorbellIdle
    /\ ServicesIdle
    /\ cameras = EmptyDict
    /\ commands = NoCall

\* FrigateMQTTClient._handle_enabled_state: a camera's enabled/state arrives
HandleEnabledState(camera, payload) ==
    /\ cameras' = DictSet(cameras, camera, payload)
    /\ UNCHANGED <<core, now, doorbell, commands, services>>

\* CameraConnectivityHandler.start, called once when the event loop
\* starts: one connectivity check.  probe is what a probe of each
\* discovered camera gives (cameras that were not discovered have no
\* address to probe).
CheckConnectivity(discovered, probe) ==
    /\ commands = NoCall
    /\ \A c \in CameraNames \ Names(discovered) : probe[c] = "closed"
    /\ commands' = <<[discovered |-> discovered,
                      probe |-> probe,
                      known_before |-> cameras,
                      sent |-> _check_connectivity(arg, discovered, probe)]>>
    /\ UNCHANGED <<core, now, doorbell, cameras, services>>

NextConnectivity ==
    \/ \E camera \in CameraNames, payload \in {"ON", "OFF"} : HandleEnabledState(camera, payload)
    \/ \E discovered \in NameLists, probe \in [CameraNames -> ProbeResults] : CheckConnectivity(discovered, probe)

SpecConnectivity == InitConnectivity /\ [][NextConnectivity]_vars

(***************************************************************************)
(* One rule applied to one event (NotificationManager._process_rule as     *)
(* process_event calls it), with every outcome of the two image requests.  *)
(***************************************************************************)
\* rules that match every event and differ in what they embed, whom they
\* mail, the subject template and the score they ask for
GateRule(include_thumbnail, include_snapshot, email_to, min_score, template) ==
    NotificationRule([RuleDefaults EXCEPT !.include_thumbnail = include_thumbnail,
                                          !.include_snapshot = include_snapshot,
                                          !.email_to = email_to,
                                          !.hysteresis_seconds = 0,
                                          !.min_score = min_score,
                                          !.subject_template = template])

GateRuleSet ==
    {GateRule(t, s, <<"me">>, 1, {"camera", "label"}) : t \in BOOLEAN, s \in BOOLEAN}
    \cup {GateRule(TRUE, TRUE, <<>>, 1, {"camera", "label"}),
          GateRule(TRUE, TRUE, <<"me">>, 1, {"camera", "name"}),
          GateRule(TRUE, FALSE, <<"me">>, 0, {"camera", "label"}),
          GateRule(TRUE, FALSE, <<"me">>, 2, {"camera", "label"})}

\* the score levels of an event
Scores == 0..2

\* event payloads with a current score and a top score
GatePayload(type, score, top_score) ==
    [type |-> type,
     after |-> [camera |-> <<"a">>, label |-> <<"p">>, current_zones |-> {},
                score |-> score, top_score |-> top_score]]

GatePayloads ==
    {GatePayload(TypeNew, s, x) : s \in Scores, x \in Scores}
        \cup {GatePayload(TypeEnd, 1, 1)}

\* what the mail server and the two image requests do
GateEnvs == [smtp_ok : BOOLEAN, duration : {0}, thumbnail : FetchOutcomes, snapshot : FetchOutcomes]

InitGate ==
    /\ rules \in {<<r>> : r \in GateRuleSet}
    /\ last_notification = EmptyDict
    /\ now = 0
    /\ delivered = EmptyDict
    /\ log = NoCall
    /\ matching = NoCall
    /\ ret = NoCall
    /\ arg = NoCall
    /\ lock = {}
    /\ pc = <<>>
    /\ local = <<>>
    /\ DoorbellIdle
    /\ ConnectivityIdle
    /\ ServicesIdle

\* process_event on an event its one rule matches, up to the end of
\* _process_rule.  if_fetched is what the same call does when both image
\* requests give bytes.
ProcessRule(data) ==
    \E event \in {FrigateEvent_from_dict(data)} :
    \E matching_rules \in {get_matching_rules(rules, event)} :
        /\ matching_rules # <<>>
        /\ \E is_new \in {event.event_type = "NEW"}, is_end \in {event.event_type = "END"} :
           \E st0 \in {[map |-> last_notification, clock |-> now,
                        delivered |-> delivered, entries |-> <<>>, raised |-> FALSE]} :
           \E sends \in {ReturnsAt(last_notification, now, event, matching_rules[1],
                                   is_new, is_end) = "none"} :
           \E env \in (IF sends THEN GateEnvs ELSE {NoSend}) :
           \E st \in {_process_rule(st0, event, matching_rules[1], is_new, is_end, env)} :
           \E other \in {_process_rule(st0, event, matching_rules[1], is_new, is_end,
                                       [env EXCEPT !.thumbnail = "data",
                                                   !.snapshot = "data"])} :
               /\ last_notification' = st.map
               /\ now' = st.clock
               /\ delivered' = st.delivered
               /\ log' = <<[event |-> event,
                            env |-> env,
                            entries |-> st.entries,
                            raised |-> st.raised,
                            if_fetched |-> other.entries[1]]>>
        /\ UNCHANGED <<rules, matching, ret, arg, lock, pc, local, periphery>>

NextGate == \E data \in GatePayloads : ProcessRule(data)

SpecGate == InitGate /\ [][NextGate]_vars

(***************************************************************************)
(* The HysteresisTracker asked about pairs of names that may hold the      *)
(* separator of get_key.  log[1] is the last call of record_notification   *)
(* with the map it found.                                                  *)
(***************************************************************************)
\* (camera, object_type) pairs, all different
KeyPairs ==
    {<<<<"a">>, <<"c">>>>,
     <<<<"a">>, <<"b", ":", "c">>>>,
     <<<<"a", ":", "b">>, <<"c">>>>}

InitKeys ==
    /\ rules = <<>>
    /\ last_notification = EmptyDict
    /\ now = 0
    /\ delivered = EmptyDict
    /\ log = NoCall
    /\ matching = NoCall
    /\ ret = NoCall
    /\ arg = NoCall
    /\ lock = {}
    /\ pc = <<>>
    /\ local = <<>>
    /\ DoorbellIdle
    /\ ConnectivityIdle
    /\ ServicesIdle

KeysCanNotify(pair, hysteresis_seconds) ==
    \E r \in {can_notify(last_notification, pair[1], pair[2], hysteresis_seconds, now)} :
        /\ last_notification' = r.last_notification
        /\ ret' = <<[camera |-> pair[1], object_type |-> pair[2],
                     hysteresis_seconds |-> hysteresis_seconds, at |-> now,
                     value |-> r.value]>>
        /\ UNCHANGED <<rules, now, delivered, log, matching, arg, lock, pc, local, periphery>>

KeysRecordNotification(pair) ==
    /\ last_notification' = record_notification(last_notification, pair[1], pair[2], now)
    /\ log' = <<[camera |-> pair[1], object_type |-> pair[2], at |-> now,
                 map_before |-> last_notification]>>
    /\ UNCHANGED <<rules, now, delivered, matching, ret, arg, lock, pc, local, periphery>>

NextKeys ==
    \/ \E pair \in KeyPairs, h \in Intervals : KeysCanNotify(pair, h)
    \/ \E pair \in KeyPairs : KeysRecordNotification(pair)
    \/ Tick

SpecKeys == InitKeys /\ [][NextKeys]_vars

(***************************************************************************)
(* process_event called by two threads for events of one camera and label  *)
(* under one rule.  Each thread runs _process_rule: the gates up to        *)
(* can_notify (which holds the tracker's lock while it reads), then        *)
(* _send_notification, then record_notification (which holds the lock      *)
(* while it writes); no lock is held from the one to the other.  log       *)
(* holds the last two mails that were sent.                                *)
(***************************************************************************)
RaceEvent == FrigateEvent_from_dict(Payload(TypeNew, <<"a">>, 1))

RaceRule(hysteresis_seconds) ==
    NotificationRule([RuleDefaults EXCEPT !.hysteresis_seconds = hysteresis_seconds])

InitRace ==
    /\ rules \in {<<RaceRule(h)>> : h \in {1, 2}}
    /\ last_notification = EmptyDict
    /\ now = 0
    /\ delivered = EmptyDict
    /\ log = NoCall
    /\ matching = NoCall
    /\ ret = NoCall
    /\ arg = NoCall
    /\ lock = {}
    /\ pc = [t \in Threads |-> "idle"]
    /\ local = [t \in Threads |-> Idle]
    /\ DoorbellIdle
    /\ ConnectivityIdle
    /\ ServicesIdle

\* lines 823-855: the gates, the last of them can_notify
RaceGates(t) ==
    /\ pc[t] = "idle"
    /\ get_matching_rules(rules, RaceEvent) # <<>>
    /\ pc' = [pc EXCEPT ![t] =
                  IF ReturnsAt(last_notification, now, RaceEvent, rules[1], TRUE, FALSE) = "none"
                  THEN "_process_rule_858" ELSE "idle"]
    /\ UNCHANGED <<rules, last_notification, now, delivered, log, matching, ret, arg, lock, local, periphery>>

\* line 858: success = self._send_notification(event, rule)
RaceSend(t, env) ==
    /\ pc[t] = "_process_rule_858"
    /\ \E success \in {_send_notification(rules[1], env).result} :
           /\ log' = IF success = "ok" THEN LastTwo(log, [thread |-> t, at |-> now]) ELSE log
           /\ pc' = [pc EXCEPT ![t] = IF RecordsAfter(success) THEN "_process_rule_861" ELSE "idle"]
    /\ UNCHANGED <<rules, last_notification, now, delivered, matching, ret, arg, lock, local, periphery>>

\* line 861: self.hysteresis.record_notification(camera, label)
RaceRecord(t) ==
    /\ pc[t] = "_process_rule_861"
    /\ last_notification' = record_notification(last_notification, RaceEvent.after.camera,
                                                RaceEvent.after.label, now)
    /\ pc' = [pc EXCEPT ![t] = "idle"]
    /\ UNCHANGED <<rules, now, delivered, log, matching, ret, arg, lock, local, periphery>>

NextRace ==
    \/ \E t \in Threads : RaceGates(t)
    \/ \E t \in Threads, env \in SendEnvs : RaceSend(t, env)
    \/ \E t \in Threads : RaceRecord(t)
    \/ Tick

SpecRace == InitRace /\ [][NextRace]_vars

(***************************************************************************)
(* FrigateApiHelper: the JWT token, its expiry and the login flag.  The    *)
(* clock counts in units of ExpiryBuffer (the 60 seconds before the expiry *)
(* in which a token is due for a refresh); _token_refresh_sec is the       *)
(* lifetime given to a token, in the same units.  A login outcome is what  *)
(* the POST to /api/login gives; a response is what a GET of an image      *)
(* gives.                                                                  *)
(***************************************************************************)
ExpiryBuffer == 1

_token_refresh_sec == 2

LoginOutcomes == {"token", "invalid_token", "no_token", "http_error", "exception"}

Responses == {"bytes", "unauthorized", "http_error", "url_error"}

\* FrigateApiHelper._login by one caller at clock reading t: the helper it
\* leaves, its value and the number of login requests made
_login(a, t, outcome) ==
    IF ~a.needs_auth THEN [api |-> a, value |-> TRUE, logins |-> 0]
    ELSE IF a._jwt_token # {} /\ t < a._token_expiry
         THEN [api |-> a, value |-> TRUE, logins |-> 0]
    ELSE IF a._login_in_progress THEN [api |-> a, value |-> FALSE, logins |-> 0]
    ELSE IF outcome = "token"
         THEN [api |-> [a EXCEPT !._jwt_token = {"jwt"},
                                 !._token_expiry = t + _token_refresh_sec,
                                 !._login_in_progress = FALSE],
               value |-> TRUE, logins |-> 1]
    ELSE [api |-> [a EXCEPT !._login_in_progress = FALSE], value |-> FALSE, logins |-> 1]

\* FrigateApiHelper._ensure_authenticated
_ensure_authenticated(a, t, outcome) ==
    IF ~a.needs_auth THEN [api |-> a, value |-> TRUE, logins |-> 0]
    ELSE IF a._jwt_token = {} \/ t >= a._token_expiry - ExpiryBuffer
         THEN _login(a, t, outcome)
    ELSE [api |-> a, value |-> TRUE, logins |-> 0]

\* the outcome of the next login request, given how many were made
NextLogin(logins, made) == logins[made + 1]

\* _fetch_image retrying after every 401
FetchImageRetryingAlways(_retry_count) == TRUE

\* e.code == 401 and _retry_count == 0
RetriesAfter401(_retry_count) == _retry_count = 0

\* FrigateApiHelper._fetch_image(url, timeout, _retry_count) at clock reading
\* t: responses[k] is what the k-th GET gives and logins[k] what the k-th
\* login request gives; requests and made count the GETs and the login
\* requests so far.  The value is the bytes read (None: the empty set).
RECURSIVE FetchImage(_, _, _, _, _, _, _)
FetchImage(a, t, responses, logins, _retry_count, requests, made) ==
    IF _retry_count > 1
    THEN [api |-> a, value |-> {}, requests |-> requests, logins |-> made]
    ELSE LET authenticated == _ensure_authenticated(a, t, NextLogin(logins, made))
             made1 == made + authenticated.logins
         IN  IF ~authenticated.value
             THEN [api |-> authenticated.api, value |-> {}, requests |-> requests,
                   logins |-> made1]
             ELSE LET response == responses[requests + 1]
                  IN  IF response = "bytes"
                      THEN [api |-> authenticated.api, value |-> {<<"i">>},
                            requests |-> requests + 1, logins |-> made1]
                      ELSE IF response = "unauthorized" /\ RetriesAfter401(_retry_count)
                      THEN LET cleared == [authenticated.api EXCEPT !._jwt_token = {},
                                                                    !._token_expiry = 0]
                               again == _login(cleared, t, NextLogin(logins, made1))
                           IN  IF again.value
                               THEN FetchImage(again.api, t, responses, logins,
                                               _retry_count + 1, requests + 1,
                                               made1 + again.logins)
                               ELSE [api |-> again.api, value |-> {},
                                     requests |-> requests + 1,
                                     logins |-> made1 + again.logins]
                      ELSE [api |-> authenticated.api, value |-> {},
                            requests |-> requests + 1, logins |-> made1]

\* the responses and login outcomes one fetch can meet: more of each than a
\* fetch uses
MaxRequests == 3

FetchResponses == [1..MaxRequests -> Responses]

FetchLogins == [1..(MaxRequests + 1) -> {"token", "http_error"}]

\* FrigateApiHelper.__init__: the helper logs in at once when
\* authentication is configured
InitApi ==
    /\ rules = <<>>
    /\ last_notification = EmptyDict
    /\ now = 0
    /\ delivered = EmptyDict
    /\ log = NoCall
    /\ matching = NoCall
    /\ ret = NoCall
    /\ arg = NoCall
    /\ lock = {}
    /\ pc = <<>>
    /\ local = <<>>
    /\ DoorbellIdle
    /\ ConnectivityIdle
    /\ \E needs_auth \in BOOLEAN, outcome \in LoginOutcomes :
           api = _login([needs_auth |-> needs_auth, _jwt_token |-> {}, _token_expiry |-> 0,
                         _login_in_progress |-> FALSE], 0, outcome).api
    /\ lanmon = <<>>
    /\ worker = <<>>
    /\ server = <<>>

\* a call of _ensure_authenticated
EnsureAuthenticated(outcome) ==
    \E r \in {_ensure_authenticated(api, now, outcome)} :
        /\ api' = r.api
        /\ log' = <<[op |-> "_ensure_authenticated", at |-> now, before |-> api,
                     outcome |-> IF r.logins = 0 THEN "unused" ELSE outcome,
                     value |-> r.value, logins |-> r.logins]>>
        /\ UNCHANGED <<rules, last_notification, now, delivered, matching, ret, arg, lock, pc,
                       local, doorbell, connectivity, lanmon, worker, server>>

\* a call of fetch_thumbnail or fetch_snapshot
Fetch(responses, logins) ==
    \E r \in {FetchImage(api, now, responses, logins, 0, 0, 0)} :
        /\ \A k \in (r.requests + 1)..MaxRequests : responses[k] = "bytes"
        /\ \A k \in (r.logins + 1)..(MaxRequests + 1) : logins[k] = "token"
        /\ api' = r.api
        /\ log' = <<[op |-> "_fetch_image", at |-> now, before |-> api,
                     responses |-> SubSeq(responses, 1, r.requests),
                     value |-> r.value, requests |-> r.requests, logins |-> r.logins]>>
        /\ UNCHANGED <<rules, last_notification, now, delivered, matching, ret, arg, lock, pc,
                       local, doorbell, connectivity, lanmon, worker, server>>

NextApi ==
    \/ \E outcome \in LoginOutcomes : EnsureAuthenticated(outcome)
    \/ \E responses \in FetchResponses, logins \in FetchLogins : Fetch(responses, logins)
    \/ Tick

SpecApi == InitApi /\ [][NextApi]_vars

(***************************************************************************)
(* FrigateApiHelper._login called by two threads.  Each "with              *)
(* self._auth_lock" block is one step; pc[t] names the line the thread     *)
(* executes next.                                                          *)
(***************************************************************************)
InitLogin ==
    /\ rules = <<>>
    /\ last_notification = EmptyDict
    /\ now = 0
    /\ delivered = EmptyDict
    /\ log = NoCall
    /\ matching = NoCall
    /\ ret = [t \in Threads |-> {}]
    /\ arg = NoCall
    /\ lock = {}
    /\ pc = [t \in Threads |-> "idle"]
    /\ local = <<>>
    /\ DoorbellIdle
    /\ ConnectivityIdle
    /\ api = [needs_auth |-> TRUE, _jwt_token |-> {}, _token_expiry |-> 0,
              _login_in_progress |-> FALSE]
    /\ lanmon = <<>>
    /\ worker = <<>>
    /\ server = <<>>

\* _ensure_authenticated (lines 580-586) finding the token absent or due
LoginFromEnsure(t) ==
    /\ pc[t] = "idle"
    /\ api._jwt_token = {} \/ now >= api._token_expiry - ExpiryBuffer
    /\ pc' = [pc EXCEPT ![t] = "_login_509"]
    /\ UNCHANGED <<rules, last_notification, now, delivered, log, matching, ret, arg, lock,
                   local, periphery>>

\* _fetch_image after a 401 (lines 642-648): the token is cleared under the
\* lock, then _login is called
LoginAfter401(t) ==
    /\ pc[t] = "idle"
    /\ api' = [api EXCEPT !._jwt_token = {}, !._token_expiry = 0]
    /\ pc' = [pc EXCEPT ![t] = "_login_509"]
    /\ UNCHANGED <<rules, last_notification, now, delivered, log, matching, ret, arg, lock,
                   local, doorbell, connectivity, lanmon, worker, server>>

\* lines 509-518: the block that checks the token and the flag
LoginCheck(t) ==
    /\ pc[t] = "_login_509"
    /\ IF api._jwt_token # {} /\ now < api._token_expiry
       THEN /\ ret' = [ret EXCEPT ![t] = {TRUE}]
            /\ pc' = [pc EXCEPT ![t] = "idle"]
            /\ api' = api
       ELSE IF api._login_in_progress
       THEN /\ ret' = [ret EXCEPT ![t] = {FALSE}]
            /\ pc' = [pc EXCEPT ![t] = "idle"]
            /\ api' = api
       ELSE /\ api' = [api EXCEPT !._login_in_progress = TRUE]
            /\ pc' = [pc EXCEPT ![t] = "_login_537"]
            /\ ret' = ret
    /\ UNCHANGED <<rules, last_notification, now, delivered, log, matching, arg, lock,
                   local, doorbell, connectivity, lanmon, worker, server>>

\* line 537: the login request returns
LoginResponse(t, outcome) ==
    /\ pc[t] = "_login_537"
    /\ pc' = [pc EXCEPT ![t] = IF outcome = "token" THEN "_login_548" ELSE "_login_570"]
    /\ ret' = [ret EXCEPT ![t] = {outcome = "token"}]
    /\ UNCHANGED <<rules, last_notification, now, delivered, log, matching, arg, lock,
                   local, periphery>>

\* lines 548-552: the token is stored and the flag reset under the lock
LoginStore(t) ==
    /\ pc[t] = "_login_548"
    /\ api' = [api EXCEPT !._jwt_token = {"jwt"},
                          !._token_expiry = now + _token_refresh_sec,
                          !._login_in_progress = FALSE]
    /\ pc' = [pc EXCEPT ![t] = "_login_570"]
    /\ UNCHANGED <<rules, last_notification, now, delivered, log, matching, ret, arg, lock,
                   local, doorbell, connectivity, lanmon, worker, server>>

\* lines 569-571: the finally clause resets the flag
LoginFinally(t) ==
    /\ pc[t] = "_login_570"
    /\ api' = [api EXCEPT !._login_in_progress = FALSE]
    /\ pc' = [pc EXCEPT ![t] = "idle"]
    /\ UNCHANGED <<rules, last_notification, now, delivered, log, matching, ret, arg, lock,
                   local, doorbell, connectivity, lanmon, worker, server>>

NextLoginStep ==
    \/ \E t \in Threads : LoginFromEnsure(t)
    \/ \E t \in Threads : LoginAfter401(t)
    \/ \E t \in Threads : LoginCheck(t)
    \/ \E t \in Threads, outcome \in LoginOutcomes : LoginResponse(t, outcome)
    \/ \E t \in Threads : LoginStore(t)
    \/ \E t \in Threads : LoginFinally(t)
    \/ Tick

SpecLogin == InitLogin /\ [][NextLoginStep]_vars

(***************************************************************************)
(* LanMonitor (src/offload-proc/lanmon.py): the monitor thread's passes.   *)
(* A client is held as its MAC address as the router prints it (lower      *)
(* case); the clock counts in units of 12 hours.  notified_at is a         *)
(* history: the time of the last notification that named each address.    *)
(***************************************************************************)
QUIESCE_HOURS == 2

\* addresses the router reports
MacAddrs == {<<"a">>, <<"b">>}

\* the known_mac_addrs argument: the first word of each entry, as written
KnownMacConfigs == {{}, {<<"A">>}, {<<"a">>, <<"b">>}}

\* LanMonitor.__init__: the clients connected at construction are both the
\* current and the last clients
InitLanMon ==
    /\ rules = <<>>
    /\ last_notification = EmptyDict
    /\ now = 0
    /\ delivered = EmptyDict
    /\ log = NoCall
    /\ matching = NoCall
    /\ ret = NoCall
    /\ arg = NoCall
    /\ lock = {}
    /\ pc = <<>>
    /\ local = <<>>
    /\ DoorbellIdle
    /\ ConnectivityIdle
    /\ api = <<>>
    /\ \E known \in KnownMacConfigs, clients \in SUBSET MacAddrs, email_to \in BOOLEAN :
           lanmon = [known_mac_addrs |-> {Lower(x) : x \in known},
                     notification_email_to |-> email_to,
                     curr_clients |-> clients,
                     last_clients |-> clients,
                     quiesce_tbl |-> EmptyDict,
                     monitor_error |-> FALSE,
                     notified_at |-> EmptyDict]
    /\ worker = <<>>
    /\ server = <<>>

\* a quiesce table that keeps no entry
QuiesceNothing(quiesce_tbl, new_macs, t) == quiesce_tbl

\* line 137: the entries of the new clients are set to expire QUIESCE_HOURS
\* from now
QuiesceNew(quiesce_tbl, new_macs, t) ==
    [mac \in (DOMAIN quiesce_tbl) \cup new_macs |->
        IF mac \in new_macs THEN t + QUIESCE_HOURS ELSE quiesce_tbl[mac]]

\* lines 141-143: the entries that have expired are deleted
DropExpired(quiesce_tbl, t) ==
    [mac \in {m \in DOMAIN quiesce_tbl : ~(quiesce_tbl[m] < t)} |-> quiesce_tbl[mac]]

\* LanMonitor._handle_new_client_notifications at clock reading t, given
\* whether the mail can be sent: the monitor it leaves and the addresses
\* the notification names (none: no notification)
_handle_new_client_notifications(m, t, send_ok) ==
    LET last_macs == m.last_clients \ m.known_mac_addrs
        curr_macs == m.curr_clients \ m.known_mac_addrs
        new_macs == IF last_macs # curr_macs
                    THEN {mac \in m.curr_clients :
                              /\ mac \in curr_macs
                              /\ mac \notin last_macs
                              /\ mac \notin DOMAIN m.quiesce_tbl}
                    ELSE {}
        quiesced == QuiesceNew(m.quiesce_tbl, new_macs, t)
        sends == new_macs # {} /\ m.notification_email_to
    IN  IF sends /\ ~send_ok
        THEN [lanmon |-> [m EXCEPT !.quiesce_tbl = quiesced, !.monitor_error = TRUE],
              notified |-> {}]
        ELSE [lanmon |-> [m EXCEPT !.quiesce_tbl = DropExpired(quiesced, t),
                                   !.last_clients = m.curr_clients,
                                   !.notified_at =
                                       IF sends
                                       THEN [mac \in (DOMAIN m.notified_at) \cup new_macs |->
                                                IF mac \in new_macs THEN t
                                                ELSE m.notified_at[mac]]
                                       ELSE m.notified_at],
              notified |-> IF sends THEN new_macs ELSE {}]

\* one pass of _monitor_loop: the clients are read from the router, then
\* the notifications are handled; an exception ends the thread
MonitorPass(clients, send_ok) ==
    /\ ~lanmon.monitor_error
    /\ \E r \in {_handle_new_client_notifications([lanmon EXCEPT !.curr_clients = clients],
                                                  now, send_ok)} :
           /\ send_ok \/ r.lanmon.monitor_error
           /\ lanmon' = r.lanmon
           /\ log' = <<[at |-> now, before |-> lanmon, clients |-> clients,
                        notified |-> r.notified]>>
    /\ UNCHANGED <<rules, last_notification, now, delivered, matching, ret, arg, lock, pc,
                   local, doorbell, connectivity, api, worker, server>>

NextLanMon ==
    \/ \E clients \in SUBSET MacAddrs, send_ok \in BOOLEAN : MonitorPass(clients, send_ok)
    \/ Tick

SpecLanMon == InitLanMon /\ [][NextLanMon]_vars

(***************************************************************************)
(* Presence workers (src/offload-proc/hubitat-event-daemon.py).  worker    *)
(* is the event daemon: devs is EventDaemon.workers, a worker for each     *)
(* device id, where is_online is an Optional ({} is None) and proc is the  *)
(* child process ("None" or "started"); stopped is set when an exception   *)
(* left EventDaemon.run, which catches only KeyboardInterrupt.             *)
(***************************************************************************)
WorkerKinds == {"Pinger", "InternetChecker", "LanMonReader"}

\* the ids of the configured devices
DevIds == {1, 2}

\* EventDaemon.hub_transact: the request is answered with JSON, cannot be
\* made, or is answered with a body that is not JSON
HubOutcomes == {"returned", "connection_error", "invalid_json"}

\* a step that completes no observation
NoObservation(w) == [worker |-> w, observed |-> {}, cmd |-> {}, hub |-> {}]

\* EventDaemon.__init__ with Pinger.__init__, InternetChecker.__init__ and
\* LanMonReader.__init__
InitWorker ==
    /\ rules = <<>>
    /\ last_notification = EmptyDict
    /\ now = 0
    /\ delivered = EmptyDict
    /\ log = NoCall
    /\ matching = NoCall
    /\ ret = NoCall
    /\ arg = NoCall
    /\ lock = {}
    /\ pc = <<>>
    /\ local = <<>>
    /\ DoorbellIdle
    /\ ConnectivityIdle
    /\ api = <<>>
    /\ lanmon = <<>>
    /\ \E kinds \in [DevIds -> WorkerKinds] :
           worker = [devs |-> [dev_id \in DevIds |->
                                  [kind |-> kinds[dev_id], is_online |-> {}, proc |-> "None"]],
                     stopped |-> FALSE]
    /\ server = <<>>

\* a worker that commands the hub at every observation
StatusChangedAlways(is_online, curr_online) == TRUE

\* lines 42, 66, 112: if self.is_online != curr_online
StatusChanged(is_online, curr_online) == is_online # {curr_online}

\* lines 42-46, 66-70, 112-116: the observation curr_online is compared
\* with the recorded status, the hub is commanded, the status is recorded;
\* an exception of hub_transact leaves the method before the assignment
Observe(w, curr_online, hub) ==
    IF StatusChanged(w.is_online, curr_online)
    THEN [worker |-> IF hub = "returned" THEN [w EXCEPT !.is_online = {curr_online}] ELSE w,
          observed |-> {curr_online},
          cmd |-> {IF curr_online THEN "arrived" ELSE "departed"},
          hub |-> {hub}]
    ELSE [worker |-> [w EXCEPT !.is_online = {curr_online}],
          observed |-> {curr_online}, cmd |-> {}, hub |-> {}]

\* Worker.work_if_due of the worker of dev_id when it is due: r is what
\* work() did; an exception of work() ends the daemon
Worked(dev_id, r) ==
    /\ worker' = [devs |-> [worker.devs EXCEPT ![dev_id] = r.worker],
                  stopped |-> r.hub \notin {{}, {"returned"}}]
    /\ log' = <<[dev_id |-> dev_id, before |-> worker.devs[dev_id], observed |-> r.observed,
                 cmd |-> r.cmd, hub |-> r.hub]>>
    /\ UNCHANGED <<rules, last_notification, now, delivered, matching, ret, arg, lock, pc,
                   local, doorbell, connectivity, api, lanmon, server>>

\* Pinger.work: finished is whether ping_proc.poll() is not None
PingerWork(dev_id, finished, returncode, hub) ==
    /\ worker.devs[dev_id].kind = "Pinger"
    /\ ~worker.stopped
    /\ IF worker.devs[dev_id].proc = "None"
       THEN /\ ~finished /\ returncode = 0 /\ hub = "returned"
            /\ Worked(dev_id, NoObservation([worker.devs[dev_id] EXCEPT !.proc = "started"]))
       ELSE IF ~finished
       THEN /\ returncode = 0 /\ hub = "returned"
            /\ Worked(dev_id, NoObservation(worker.devs[dev_id]))
       ELSE \E r \in {Observe(worker.devs[dev_id], returncode = 0, hub)} :
               /\ r.hub # {} \/ hub = "returned"
               /\ Worked(dev_id, r)

\* InternetChecker.work: ok is whether 'OK' is in the first line of the output
InternetCheckerWork(dev_id, finished, returncode, ok, hub) ==
    /\ worker.devs[dev_id].kind = "InternetChecker"
    /\ ~worker.stopped
    /\ IF worker.devs[dev_id].proc = "None"
       THEN /\ ~finished /\ returncode = 0 /\ ok /\ hub = "returned"
            /\ Worked(dev_id, NoObservation([worker.devs[dev_id] EXCEPT !.proc = "started"]))
       ELSE IF ~finished
       THEN /\ returncode = 0 /\ ok /\ hub = "returned"
            /\ Worked(dev_id, NoObservation(worker.devs[dev_id]))
       ELSE \E r \in {Observe(worker.devs[dev_id], returncode = 0 /\ ok, hub)} :
               /\ r.hub # {} \/ hub = "returned"
               /\ Worked(dev_id, r)

\* LanMonReader.work: listed is whether an active client has the address
LanMonReaderWork(dev_id, listed, hub) ==
    /\ worker.devs[dev_id].kind = "LanMonReader"
    /\ ~worker.stopped
    /\ \E r \in {Observe(worker.devs[dev_id], listed, hub)} :
           /\ r.hub # {} \/ hub = "returned"
           /\ Worked(dev_id, r)

NextWorker ==
    \/ \E dev_id \in DevIds, finished \in BOOLEAN, returncode \in {0, 1}, hub \in HubOutcomes :
           PingerWork(dev_id, finished, returncode, hub)
    \/ \E dev_id \in DevIds, finished \in BOOLEAN, returncode \in {0, 1}, ok \in BOOLEAN,
          hub \in HubOutcomes :
           InternetCheckerWork(dev_id, finished, returncode, ok, hub)
    \/ \E dev_id \in DevIds, listed \in BOOLEAN, hub \in HubOutcomes :
           LanMonReaderWork(dev_id, listed, hub)

SpecWorker == InitWorker /\ [][NextWorker]_vars

(***************************************************************************)
(* The system-management HTTP services (src/sysmgmtd/sysmgmtd.py and       *)
(* src/power-mgmt/power-mgmt.py).  server is the running service and its   *)
(* secret; log holds the last request.  An HMAC-SHA256 hex digest is held  *)
(* as the pair it was computed from (distinct pairs give distinct          *)
(* digests); any other token is held by whether it is empty and whether    *)
(* all its characters are ASCII.  An Authorization header is None ({}),    *)
(* or a scheme prefix and the rest.                                        *)
(***************************************************************************)
Services == {"sysmgmtd", "power-mgmt"}

Secrets == {"", "s1", "s2"}

Paths == {"/reboot", "/shutdown", "/health", "/speedtest", "/dnsleaktest", "/other"}

\* hmac.new(secret.encode(), path.encode(), hashlib.sha256).hexdigest()
HmacHexdigest(secret, path) == [kind |-> "hexdigest", secret |-> secret, path |-> path]

Tokens ==
    {HmacHexdigest(secret, path) : secret \in Secrets, path \in Paths}
        \cup {[kind |-> "text", empty |-> TRUE, ascii |-> TRUE],
              [kind |-> "text", empty |-> FALSE, ascii |-> TRUE],
              [kind |-> "text", empty |-> FALSE, ascii |-> FALSE]}

\* the values of self.headers.get('Authorization')
AuthHeaders ==
    {{}, {[prefix |-> "", rest |-> [kind |-> "text", empty |-> TRUE, ascii |-> TRUE]]}}
        \cup {{[prefix |-> prefix, rest |-> token]} :
                  prefix \in {"Bearer ", "Basic "}, token \in Tokens}

\* a hexdigest is ASCII text
IsAscii(token) == token.kind = "hexdigest" \/ token.ascii

\* the header is the empty string
IsEmptyHeader(h) == h.prefix = "" /\ h.rest.kind = "text" /\ h.rest.empty

\* hmac.compare_digest(token, expected) on two str: TypeError unless both
\* are ASCII
compare_digest(token, expected) ==
    IF IsAscii(token) /\ IsAscii(expected)
    THEN [raised |-> FALSE, value |-> token = expected]
    ELSE [raised |-> TRUE, value |-> FALSE]

\* verify_auth of both handlers
verify_auth(secret, path, auth_header) ==
    IF auth_header = {} \/ \E h \in auth_header : IsEmptyHeader(h) \/ h.prefix # "Bearer "
    THEN [raised |-> FALSE, value |-> FALSE]
    ELSE LET token == (CHOOSE h \in auth_header : TRUE).rest
         IN  compare_digest(token, HmacHexdigest(secret, path))

\* do_POST of both handlers: the status code sent (none when an exception
\* left the handler) and the command run; cmd_ok is whether the command
\* or the Docker client of sysmgmtd succeeds
do_POST(srv, path, auth_header, cmd_ok) ==
    IF srv.secret = ""
    THEN [code |-> {500}, action |-> {}]
    ELSE LET v == verify_auth(srv.secret, path, auth_header)
         IN  IF v.raised THEN [code |-> {}, action |-> {}]
             ELSE IF ~v.value THEN [code |-> {401}, action |-> {}]
             ELSE IF path \in {"/reboot", "/shutdown"}
             THEN [code |-> {200}, action |-> {path}]
             ELSE IF path = "/health"
             THEN [code |-> {IF srv.service = "sysmgmtd" /\ ~cmd_ok THEN 500 ELSE 200},
                   action |-> {}]
             ELSE IF srv.service = "sysmgmtd" /\ path \in {"/speedtest", "/dnsleaktest"}
             THEN [code |-> {IF cmd_ok THEN 200 ELSE 500}, action |-> {path}]
             ELSE [code |-> {404}, action |-> {}]

\* do_GET of both handlers
do_GET(path) ==
    [code |-> {IF path = "/health" THEN 200 ELSE 404}, action |-> {}]

\* main() of either service; power-mgmt serves with an empty secret, and
\* the handler of sysmgmtd has the empty secret as its default
InitServer ==
    /\ rules = <<>>
    /\ last_notification = EmptyDict
    /\ now = 0
    /\ delivered = EmptyDict
    /\ log = NoCall
    /\ matching = NoCall
    /\ ret = NoCall
    /\ arg = NoCall
    /\ lock = {}
    /\ pc = <<>>
    /\ local = <<>>
    /\ DoorbellIdle
    /\ ConnectivityIdle
    /\ api = <<>>
    /\ lanmon = <<>>
    /\ worker = <<>>
    /\ \E service \in Services, secret \in Secrets :
           server = [service |-> service, secret |-> secret]

\* do_POST serving a request
POST(path, auth_header, cmd_ok) ==
    \E r \in {do_POST(server, path, auth_header, cmd_ok)} :
        /\ cmd_ok \/ 500 \in r.code
        /\ log' = <<[method |-> "POST", path |-> path, auth_header |-> auth_header,
                     code |-> r.code, action |-> r.action]>>
        /\ UNCHANGED <<rules, last_notification, now, delivered, matching, ret, arg, lock,
                       pc, local, doorbell, connectivity, services>>

\* do_GET serving a request
GET(path) ==
    \E r \in {do_GET(path)} :
        /\ log' = <<[method |-> "GET", path |-> path, auth_header |-> {},
                     code |-> r.code, action |-> r.action]>>
        /\ UNCHANGED <<rules, last_notification, now, delivered, matching, ret, arg, lock,
                       pc, local, doorbell, connectivity, services>>

NextServer ==
    \/ \E path \in Paths, auth_header \in AuthHeaders, cmd_ok \in BOOLEAN :
           POST(path, auth_header, cmd_ok)
    \/ \E path \in Paths : GET(path)

SpecServer == InitServer /\ [][NextServer]_vars

(***************************************************************************)
(* Properties of the rule matcher (SpecMatch).                             *)
(***************************************************************************)
\* the rule's three structural predicates and its enabled flag
StructurallyMatches(R, event) ==
    /\ R.enabled
    /\ PatternMatch(R.camera_pattern, event.after.camera)
    /\ PatternMatch(R.object_type_pattern, event.after.label)
    /\ (R.zones = {} \/ R.zones \cap event.after.current_zones # {})

\* the j-th smallest member of a set of indices
NthIndex(idx, j) == CHOOSE i \in idx : Cardinality({k \in idx : k < i}) = j - 1

\* C9: get_matching_rules returns exactly the enabled rules whose camera
\* pattern, object-type pattern and zones match the event, in the order of
\* the declared rule list.
C9_MatchingRulesExactInOrder ==
    matching # NoCall =>
        LET m == matching[1]
            idx == {i \in 1..Len(rules) : StructurallyMatches(rules[i], m.event)}
        IN  /\ Len(m.value) = Cardinality(idx)
            /\ \A j \in 1..Len(m.value) : m.value[j] = rules[NthIndex(idx, j)]

\* a call that returned two different rules, and one that was filtered
\* from a two-rule list
C9_Witness ==
    /\ matching # NoCall
    /\ Len(rules) = 2
    /\ rules[1] # rules[2]
    /\ matching[1].value = <<rules[2]>>

\* C10: a rule is returned only if its camera pattern matches the entire
\* camera name and its object-type pattern the entire label
\* (case-insensitively); a prefix match is not enough.
C10_ReturnedRulesFullMatch ==
    matching # NoCall =>
        \A j \in 1..Len(matching[1].value) :
            LET R == matching[1].value[j]
                e == matching[1].event
            IN  /\ FullMatch(R.camera, e.after.camera)
                /\ FullMatch(R.object_type, e.after.label)

(***************************************************************************)
(* Properties of the dispatcher (Spec).  log[1].entries[i] is what          *)
(* _process_rule did for the i-th matching rule of log[1].event.           *)
(***************************************************************************)
LogRules == get_matching_rules(rules, log[1].event)

LogKey == get_key(log[1].event.after.camera, log[1].event.after.label)

\* a hysteresis map holding just the given Optional entry for the key
MapWith(key, entry) ==
    IF entry = {} THEN EmptyDict ELSE DictSet(EmptyDict, key, TheValue(entry))

\* the hysteresis gate of rule R at clock reading t, the key's entry given
HysteresisPasses(R, entry, t) ==
    can_notify(MapWith(LogKey, entry), log[1].event.after.camera,
               log[1].event.after.label, R.hysteresis_seconds, t).value

PhasePasses(R) ==
    \/ log[1].event.event_type = "NEW" /\ R.notify_on_new
    \/ log[1].event.event_type = "END" /\ R.notify_on_end

ScorePasses(R) == log[1].event.after.top_score >= R.min_score

\* C1: _process_rule records the notification only after the send returned
\* success; a failed send (no recipients included) or one that raised
\* leaves the entry of (camera, label) as it was, so that the same rule's
\* hysteresis gate still passes for the same event from then on.
C1_RecordOnlyAfterSuccess ==
    log # NoCall =>
        \A i \in 1..Len(log[1].entries) :
            LET e == log[1].entries[i]
                R == LogRules[i]
            IN  /\ e.result = "ok" => e.after = {e.done_at}
                /\ e.result # "ok" => e.after = e.before
                /\ e.sent /\ R.email_to = <<>> => e.result # "ok"
                /\ e.sent /\ e.result # "ok" =>
                       \A t \in e.done_at..MaxTime : HysteresisPasses(R, e.after, t)

\* a send that failed although the key had an entry, which it kept
C1_Witness ==
    /\ log # NoCall
    /\ \E i \in 1..Len(log[1].entries) :
           /\ log[1].entries[i].result = "fail"
           /\ log[1].entries[i].before # {}
           /\ log[1].entries[i].after = log[1].entries[i].before

\* C2: an event that matches two or more rules and passes the phase, score
\* and quiet-hours gates of each, the hysteresis state being empty (so that
\* each rule's hysteresis gate passes on it), gets a delivery attempt from
\* every one of them (stated for calls in which no send raised).
C2_EveryMatchingRuleAttempts ==
    log # NoCall =>
        LET L == log[1]
            all == 1..Len(L.entries)
        IN  (/\ ~L.raised
             /\ Len(L.entries) >= 2
             /\ L.map_before = EmptyDict
             /\ \A i \in all : /\ PhasePasses(LogRules[i])
                               /\ ScorePasses(LogRules[i])
                               /\ ~is_quiet_hours(LogRules[i], L.entries[i].at)
                               /\ HysteresisPasses(LogRules[i], {}, L.entries[i].at))
            => \A i \in all : L.entries[i].sent

\* C3: for every rule the dispatcher processes, a delivery attempt is made
\* iff the phase, score, quiet-hours and hysteresis gates all pass; the
\* rule is left at the first gate that fails, in that order, without an
\* exception and with the hysteresis entry as it was.  Every matching rule
\* is processed unless an earlier rule's send raised.
C3_AttemptIffAllGatesPass ==
    log # NoCall =>
        LET L == log[1]
        IN  /\ Len(L.entries) <= Len(LogRules)
            /\ ~L.raised => Len(L.entries) = Len(LogRules)
            /\ L.raised => L.entries[Len(L.entries)].sent
            /\ \A i \in 1..Len(L.entries) :
                   LET e == L.entries[i]
                       R == LogRules[i]
                       first_failing ==
                           IF ~PhasePasses(R) THEN "phase"
                           ELSE IF ~ScorePasses(R) THEN "score"
                           ELSE IF is_quiet_hours(R, e.at) THEN "quiet"
                           ELSE IF ~HysteresisPasses(R, e.before, e.at) THEN "hysteresis"
                           ELSE "none"
                   IN  /\ e.gate = first_failing
                       /\ e.sent <=> first_failing = "none"
                       /\ ~e.sent => /\ e.result = "skipped"
                                     /\ e.after = e.before
                                     /\ e.done_at = e.at

\* one event for which a rule sent and another was stopped by quiet hours
C3_Witness ==
    /\ log # NoCall
    /\ \E i, j \in 1..Len(log[1].entries) :
           /\ log[1].entries[i].sent
           /\ log[1].entries[j].gate = "quiet"

\* C4: an event of phase UPDATE, among them the events whose type is
\* missing or not one of new, update, end, gets no delivery attempt and
\* leaves the hysteresis map as it was.
C4_UpdateNeverNotifies ==
    log # NoCall =>
        LET L == log[1]
            unrecognized ==
                \/ L.type = {}
                \/ Lower(TheValue(L.type)) \notin {TypeNew, TypeUpdate, TypeEnd}
        IN  /\ unrecognized => L.event.event_type = "UPDATE"
            /\ (L.event.event_type = "UPDATE" \/ unrecognized) =>
                   /\ \A i \in 1..Len(L.entries) : ~L.entries[i].sent
                   /\ last_notification = L.map_before

\* an event without a type met a matching rule at a time its other gates
\* would have passed
C4_Witness ==
    /\ log # NoCall
    /\ log[1].type = {}
    /\ \E i \in 1..Len(log[1].entries) :
           /\ ScorePasses(LogRules[i])
           /\ LogRules[i].notify_on_new /\ LogRules[i].notify_on_end
           /\ ~is_quiet_hours(LogRules[i], log[1].entries[i].at)
           /\ HysteresisPasses(LogRules[i], log[1].entries[i].before, log[1].entries[i].at)

\* C5: once a mail for (camera, label) was delivered at time t, a rule
\* with hysteresis H > 0 that reaches its hysteresis gate for that pair is
\* stopped there at every time before t + H and sends at every time from
\* t + H on (t is when the send returned, which is the time recorded).
C5_SuppressedWithinIntervalOnly ==
    log # NoCall =>
        \A i \in 1..Len(log[1].entries) :
            LET e == log[1].entries[i]
                R == LogRules[i]
                H == R.hysteresis_seconds
            IN  (e.gate \in {"hysteresis", "none"} /\ e.delivered_before # {} /\ H > 0) =>
                    LET t == TheValue(e.delivered_before)
                    IN  /\ e.at < t + H => e.gate = "hysteresis" /\ ~e.sent
                        /\ e.at >= t + H => e.sent

\* a rule with H > 0 sent again once the interval since the last mail was over
C5_Witness ==
    /\ log # NoCall
    /\ \E i \in 1..Len(log[1].entries) :
           /\ log[1].entries[i].sent
           /\ log[1].entries[i].delivered_before # {}
           /\ LogRules[i].hysteresis_seconds > 0

(***************************************************************************)
(* Properties of the HysteresisTracker (SpecTracker).                      *)
(***************************************************************************)
LastCall == ret[Len(ret)]

\* C6: can_notify returns true iff the key has no entry or
\* now - last_notified_at >= min_interval (an elapsed time equal to the
\* interval passes); a key never recorded is allowed for every interval and
\* every clock reading.
C6_AllowedIffNoEntryOrIntervalOver ==
    (ret # NoCall /\ LastCall.op = "can_notify") =>
        LET key == get_key(LastCall.camera, LastCall.object_type)
        IN  LastCall.value <=>
                \/ key \notin DOMAIN last_notification
                \/ LastCall.at - last_notification[key] >= LastCall.hysteresis_seconds

SameArguments(c, d) ==
    /\ c.camera = d.camera
    /\ c.object_type = d.object_type
    /\ c.hysteresis_seconds = d.hysteresis_seconds

\* C7 as stated: two calls of can_notify with the same arguments and no
\* call of record_notification between them return the same boolean.
C7_TwoCallsSameBoolean ==
    (Len(ret) = 2 /\ ret[1].op = "can_notify" /\ ret[2].op = "can_notify"
         /\ SameArguments(ret[1], ret[2]))
        => ret[1].value = ret[2].value

\* C7 as amended: can_notify never modifies the hysteresis map, and two
\* calls with the same arguments that read the same clock value, with no
\* call of record_notification or clear between them, return the same
\* boolean; when the clock advanced between them the result changes at
\* most from false to true.
C7_ReadOnlyAndSameBooleanAtSameTime ==
    /\ \A i \in 1..Len(ret) : ret[i].op = "can_notify" => ret[i].unchanged
    /\ (Len(ret) = 2 /\ ret[1].op = "can_notify" /\ ret[2].op = "can_notify"
            /\ SameArguments(ret[1], ret[2]))
           => /\ ret[1].at = ret[2].at => ret[1].value = ret[2].value
              /\ ret[1].at <= ret[2].at
              /\ ret[1].value => ret[2].value

\* two calls in a row at one clock reading that were both allowed, for a
\* key that has an entry and a positive interval
C7_Witness ==
    /\ Len(ret) = 2
    /\ ret[1].op = "can_notify" /\ ret[2].op = "can_notify"
    /\ SameArguments(ret[1], ret[2])
    /\ ret[1].at = ret[2].at
    /\ ret[1].value /\ ret[2].value
    /\ ret[2].hysteresis_seconds > 0
    /\ get_key(ret[2].camera, ret[2].object_type) \in DOMAIN last_notification

(***************************************************************************)
(* Properties of the HysteresisTracker under concurrent callers (SpecConc). *)
(***************************************************************************)
InsideLock(t) ==
    pc[t] \in {"can_notify_693", "can_notify_694", "record_notification_702", "clear_707"}

\* C8: can_notify, record_notification and clear exclude one another on the
\* map: at most one thread is inside a locked block, it is the holder of
\* the lock, and the value a can_notify has read for its key is the value
\* the map holds for that key until the call returns -- the entry as it was
\* before or after any concurrent record or clear, never one in between.
C8_MutualExclusionOnMap ==
    /\ \A t, u \in Threads : (InsideLock(t) /\ InsideLock(u)) => t = u
    /\ \A t \in Threads : InsideLock(t) <=> t \in lock
    /\ \A t \in Threads :
           pc[t] = "can_notify_694" =>
               local[t].last_time =
                   DictGet(last_notification, get_key(local[t].camera, TrackerLabel), 0)

\* a can_notify has read an entry of its key while a record_notification of
\* the same key waits for the lock
C8_Witness ==
    \E t, u \in Threads :
        /\ pc[t] = "can_notify_694"
        /\ pc[u] = "record_notification_701"
        /\ local[t].camera = local[u].camera
        /\ get_key(local[t].camera, TrackerLabel) \in DOMAIN last_notification
        /\ local[t].last_time > 0
        /\ now > local[t].last_time

(***************************************************************************)
(* Properties of the quiet-hours window (SpecQuiet).                       *)
(***************************************************************************)
\* C11: a rule without a start or without an end is never quiet; with
\* start <= end it is quiet iff start <= now <= end; with start > end (the
\* window wraps midnight) it is quiet iff now >= start or now <= end; both
\* ends of the window are quiet.
C11_QuietIffInsideWindow ==
    ret # NoCall =>
        LET S == rules[1].quiet_hours_start
            E == rules[1].quiet_hours_end
            t == ret[1].at % DayLen
            quiet == ret[1].value
        IN  /\ (S = {} \/ E = {}) => ~quiet
            /\ (S # {} /\ E # {}) =>
                   \A s \in S, e \in E :
                       /\ s <= e => (quiet <=> (s <= t /\ t <= e))
                       /\ s > e => (quiet <=> (t >= s \/ t <= e))
                       /\ t \in {s, e} => quiet

\* a window that wraps midnight, asked on a later day at the very end of
\* the window
C11_Witness ==
    /\ ret # NoCall
    /\ rules[1].quiet_hours_start # {} /\ rules[1].quiet_hours_end # {}
    /\ TheValue(rules[1].quiet_hours_start) > TheValue(rules[1].quiet_hours_end)
    /\ ret[1].at >= DayLen
    /\ ret[1].at % DayLen = TheValue(rules[1].quiet_hours_end)
    /\ ret[1].value

(***************************************************************************)
(* Properties of the doorbell edge detector (SpecDoorbell).  poll[1] is    *)
(* what the last pass of the monitor loop did.                             *)
(***************************************************************************)
Polled == poll # <<>> /\ poll[1].polled

\* C12: a press is reported only on an observation whose alarm_state is 1,
\* when the previously observed alarm_state was 0 and more than
\* debounce_time has passed since the last press reported; so two presses
\* reported are more than debounce_time apart.
C12_PressOnlyOnDebouncedRisingEdge ==
    (Polled /\ poll[1].value) =>
        /\ poll[1].sample.kind = "visitor"
        /\ poll[1].sample.alarm_state = 1
        /\ poll[1].observed_before = {0}
        /\ \A t \in poll[1].press_before : poll[1].at - t > driver.debounce_time

\* C13: the first observation after the detector was created reports no
\* press, even if its alarm_state is 1.
C13_NoPressOnFirstObservation ==
    (Polled /\ poll[1].observed_before = {} /\ poll[1].sample.kind = "visitor") =>
        ~poll[1].value

\* C14: a sample that fails (an exception, a status other than 200, a
\* reply without visitor data) leaves the previous alarm state and the time
\* of the last press as they were, and no press is reported or published.
C14_FailedSampleChangesNothing ==
    (Polled /\ poll[1].sample.kind # "visitor") =>
        /\ driver = poll[1].before
        /\ ~poll[1].value
        /\ poll[1].published = <<>>
        /\ poll[1].observed = poll[1].observed_before
        /\ poll[1].last_press = poll[1].press_before

\* a request that raised while the detector remembered alarm_state 1 and a
\* press
C14_Witness ==
    /\ Polled
    /\ poll[1].sample.kind = "exception"
    /\ poll[1].before._last_alarm_state = 1
    /\ poll[1].before.last_event_time > 0
    /\ driver = poll[1].before

\* C15: an exception while sampling reaches the caller of
\* check_doorbell_press, so that the loop counts a reconnect attempt and
\* logs in again (or gives up at max_reconnect_attempts) for that pass.
C15_SamplingErrorReachesLoop ==
    (Polled /\ poll[1].sample.kind = "exception") =>
        /\ poll[1].raised
        /\ \/ poll[1].relogin /\ monitor.reconnect_attempts = poll[1].attempts_before + 1
           \/ poll[1].attempts_before + 1 >= max_reconnect_attempts

(***************************************************************************)
(* Properties of the message callback (SpecClient).  log[1] is what the    *)
(* callback did with the last message.                                     *)
(***************************************************************************)
\* the value of a key of a decoded object, or the default where it is absent
ValueOr(object, key, default) == IF key \in DOMAIN object THEN object[key] ELSE default

\* the phase a type string stands for
PhaseOf(type) ==
    IF Lower(type) = TypeNew THEN "NEW"
    ELSE IF Lower(type) = TypeEnd THEN "END"
    ELSE "UPDATE"

\* what a decoded payload with an "after" object normalizes to
Normalized(value) ==
    [event_type |-> IF "type" \in DOMAIN value THEN PhaseOf(value.type) ELSE "UPDATE",
     after |-> [camera |-> ValueOr(value.after, "camera", <<>>),
                label |-> ValueOr(value.after, "label", <<>>),
                score |-> ValueOr(value.after, "score", 0),
                top_score |-> ValueOr(value.after, "top_score", 0),
                current_zones |-> ValueOr(value.after, "current_zones", {}),
                entered_zones |-> ValueOr(value.after, "entered_zones", {})]]

HasAfter(payload) == payload.valid /\ "after" \in DOMAIN payload.value

\* C16: a payload that decodes to a JSON object (with its "after" object)
\* is normalized without an exception whatever optional keys are missing:
\* an absent score or top_score is 0, absent zone lists are empty, an
\* absent or unrecognized type is UPDATE; and the event is handed to the
\* handler, which processes every matching rule.
C16_MissingKeysTakeDefaults ==
    (log # NoCall /\ HasAfter(log[1].payload)) =>
        /\ log[1].error = "none"
        /\ ~log[1].escaped
        /\ log[1].handled = {Normalized(log[1].payload.value)}
        /\ ~log[1].raised =>
               Len(log[1].entries) =
                   Len(get_matching_rules(rules, Normalized(log[1].payload.value)))

\* a new event without top_score was stopped by the score gate of the
\* rule it matched
C16_Witness ==
    /\ log # NoCall
    /\ HasAfter(log[1].payload)
    /\ "top_score" \notin DOMAIN log[1].payload.value.after
    /\ log[1].handled # {}
    /\ Len(log[1].entries) = 1
    /\ log[1].entries[1].gate = "score"

\* C17: a message whose payload is no JSON is dropped: no handler is
\* called for it, nothing is sent or recorded, no exception leaves the
\* callback; and a valid message that comes after it is normalized and
\* handled as ever.
C17_MalformedDroppedLaterHandled ==
    log # NoCall =>
        /\ ~log[1].payload.valid =>
               /\ log[1].handled = {}
               /\ log[1].entries = <<>>
               /\ last_notification = log[1].map_before
        /\ ~log[1].escaped
        /\ (log[1].dropped_before /\ HasAfter(log[1].payload)) =>
               /\ log[1].handled = {Normalized(log[1].payload.value)}
               /\ ~log[1].raised =>
                      Len(log[1].entries) =
                          Len(get_matching_rules(rules, Normalized(log[1].payload.value)))

\* after a message that was dropped, a new event was handled and a mail
\* sent for it
C17_Witness ==
    /\ log # NoCall
    /\ log[1].dropped_before
    /\ log[1].handled # {}
    /\ Len(log[1].entries) = 1
    /\ log[1].entries[1].result = "ok"

(***************************************************************************)
(* Exceptions in the dispatcher (Spec).                                    *)
(***************************************************************************)
\* C18: an exception while one matching rule of an event is processed does
\* not keep the other rules matching that event from being processed:
\* every matching rule goes through its gates (and sends if they pass).
C18_RuleFailureIsolated ==
    log # NoCall =>
        /\ Len(log[1].entries) = Len(LogRules)
        /\ \A i \in 1..Len(log[1].entries) :
               log[1].entries[i].sent <=> log[1].entries[i].gate = "none"

(***************************************************************************)
(* Properties of the camera connectivity check (SpecConnectivity).         *)
(* commands[1] is what the last check did.                                 *)
(***************************************************************************)
\* the commands of the last check that went to the camera, in order
RECURSIVE CommandsFor(_, _)
CommandsFor(camera, i) ==
    IF i > Len(commands[1].sent) THEN <<>>
    ELSE (IF commands[1].sent[i].camera = camera THEN <<commands[1].sent[i]>> ELSE <<>>)
             \o CommandsFor(camera, i + 1)

\* C19: in a check that got the camera list, with the MQTT client
\* connected, a camera whose exception is 'enabled' (resp. 'disabled') gets
\* the enable (resp. disable) command whatever a probe of it gives, and no
\* command derived from a probe.
C19_ExceptionBeatsProbe ==
    (commands # NoCall /\ arg.mqtt_client = "connected" /\ commands[1].discovered # <<>>) =>
        \A k \in 1..Len(arg.exceptions) :
            LET camera == arg.exceptions[k][1]
                value == Lower(arg.exceptions[k][2])
            IN  value \in {StateEnabled, StateDisabled} =>
                    CommandsFor(camera, 1) =
                        <<[camera |-> camera, enable |-> (value = StateEnabled),
                           is_exception |-> TRUE]>>

\* cam1 is excepted as enabled and was discovered, its probe fails, and
\* it was enabled; the other camera was disabled after its probe
C19_Witness ==
    /\ commands # NoCall
    /\ arg.exceptions = <<<<"cam1", StateEnabled>>>>
    /\ commands[1].discovered = <<"cam1", "cam2">>
    /\ commands[1].probe["cam1"] = "timeout"
    /\ commands[1].sent = <<[camera |-> "cam1", enable |-> TRUE, is_exception |-> TRUE],
                            [camera |-> "cam2", enable |-> FALSE, is_exception |-> FALSE]>>

\* C20: a check sends an enable or disable command only to a camera whose
\* computed flag differs from its last known enabled state.
C20_CommandOnlyOnChange ==
    commands # NoCall =>
        \A i \in 1..Len(commands[1].sent) :
            LET command == commands[1].sent[i]
            IN  DictGet(commands[1].known_before, command.camera, "unknown")
                    # (IF command.enable THEN "ON" ELSE "OFF")

\* C21: with the MQTT client connected, every discovered camera that is
\* not in exceptions gets exactly one command, enable when its probe exits
\* with 0 and disable for every other outcome of the probe (another exit
\* code, timeout, nc missing, any other exception); a failing probe of one
\* camera does not keep the cameras after it from being probed and updated.
C21_ProbeFailureMeansOffline ==
    (commands # NoCall /\ arg.mqtt_client = "connected") =>
        \A i \in 1..Len(commands[1].discovered) :
            LET camera == commands[1].discovered[i]
            IN  ~InExceptions(arg, camera) =>
                    CommandsFor(camera, 1) =
                        <<[camera |-> camera,
                           enable |-> (commands[1].probe[camera] = "open"),
                           is_exception |-> FALSE]>>

\* nc is missing for the first camera, which is disabled, and the second
\* camera is still probed and enabled
C21_Witness ==
    /\ commands # NoCall
    /\ arg.exceptions = <<>>
    /\ commands[1].discovered = <<"cam1", "cam2">>
    /\ commands[1].probe = [cam1 |-> "missing", cam2 |-> "open"]
    /\ commands[1].sent = <<[camera |-> "cam1", enable |-> FALSE, is_exception |-> FALSE],
                            [camera |-> "cam2", enable |-> TRUE, is_exception |-> FALSE]>>

(***************************************************************************)
(* Properties of one rule applied to one event (SpecGate).  log[1] is the  *)
(* last call of _process_rule.                                             *)
(***************************************************************************)
\* the images the rule asks for whose request gave bytes
FetchedImages ==
    {image \in {"thumbnail", "snapshot"} :
        /\ (image = "thumbnail" => rules[1].include_thumbnail /\ log[1].env.thumbnail = "data")
        /\ (image = "snapshot" => rules[1].include_snapshot /\ log[1].env.snapshot = "data")}

\* C22: what the image requests give never changes whether the mail is
\* handed to the sender nor what the send returns: when every gate passes
\* the call does exactly what it does when both requests give bytes (with a
\* subject that formats, the send is attempted), and the mail embeds
\* exactly the requested images whose request gave bytes.
C22_FetchFailureNeverBlocksSend ==
    log # NoCall =>
        LET entry == log[1].entries[1]
            if_fetched == log[1].if_fetched
        IN  /\ entry.gate = if_fetched.gate
            /\ entry.attempted = if_fetched.attempted
            /\ entry.result = if_fetched.result
            /\ entry.after = if_fetched.after
            /\ (entry.gate = "none" /\ rules[1].subject_template \subseteq SubjectFields)
                   => entry.attempted
            /\ entry.attempted => entry.embedded = FetchedImages

\* the thumbnail request fails, the snapshot is fetched, and the mail goes
\* out with the snapshot alone
C22_Witness ==
    /\ log # NoCall
    /\ rules[1].include_thumbnail /\ rules[1].include_snapshot
    /\ log[1].env.thumbnail = "http_error"
    /\ log[1].env.snapshot = "data"
    /\ log[1].entries[1].gate = "none"
    /\ log[1].entries[1].attempted
    /\ log[1].entries[1].result = "ok"
    /\ log[1].entries[1].embedded = {"snapshot"}

\* C25: the score gate compares the event's top_score with the rule's
\* min_score, inclusively: the call returns at the score gate only when
\* top_score < min_score, an event with top_score < min_score is never
\* handed to the sender, and an event with top_score >= min_score (equal
\* included) is not stopped by the score gate, whatever its current score.
C25_ScoreGateUsesTopScoreInclusive ==
    log # NoCall =>
        LET entry == log[1].entries[1]
            top_score == log[1].event.after.top_score
        IN  /\ entry.gate = "score" => top_score < rules[1].min_score
            /\ top_score < rules[1].min_score => ~entry.attempted /\ ~entry.sent
            /\ top_score >= rules[1].min_score => entry.gate # "score"

\* an event whose top_score equals min_score and whose current score is
\* below it is sent
C25_Witness ==
    /\ log # NoCall
    /\ log[1].event.after.top_score = rules[1].min_score
    /\ log[1].event.after.score < rules[1].min_score
    /\ log[1].entries[1].gate = "none"
    /\ log[1].entries[1].attempted

(***************************************************************************)
(* Further properties of the dispatcher (Spec).                            *)
(***************************************************************************)
\* C23: every defect of the configuration is found when the rules are
\* loaded, so no call of process_event on the loaded rules fails because of
\* what a rule holds.
C23_NoConfigurationFailureWhileProcessing ==
    log # NoCall => ~log[1].raised

(***************************************************************************)
(* Further properties of the HysteresisTracker (SpecTracker).              *)
(***************************************************************************)
\* C24: the map is empty at the start; a step that is not a call of clear
\* keeps every entry, with a timestamp that is not smaller than before; a
\* call of clear leaves the map empty, as it was at the start.
C24_EntriesLastUntilClear ==
    /\ last_notification = EmptyDict
    /\ [][IF ret' # ret /\ ret'[Len(ret')].op = "clear"
          THEN last_notification' = EmptyDict
          ELSE \A key \in DOMAIN last_notification :
                   /\ key \in DOMAIN last_notification'
                   /\ last_notification'[key] >= last_notification[key]]_vars

\* a key recorded twice, the second time later: its entry holds the later
\* time, and the interval has long passed
C24_Witness ==
    /\ Len(ret) = 2
    /\ ret[1].op = "record_notification" /\ ret[2].op = "record_notification"
    /\ ret[1].camera = ret[2].camera
    /\ ret[1].at < ret[2].at
    /\ last_notification[get_key(ret[2].camera, TrackerLabel)] = ret[2].at
    /\ now = MaxTime

(***************************************************************************)
(* Properties of the tracker's keys (SpecKeys).                            *)
(***************************************************************************)
\* C27: right after a notification is recorded for one (camera,
\* object_type) pair, can_notify answers for every other pair and every
\* interval what it answered before the record.
C27_RecordLeavesOtherPairsAlone ==
    (log # NoCall /\ log[1].at = now) =>
        \A pair \in KeyPairs \ {<<log[1].camera, log[1].object_type>>} :
            \A h \in Intervals :
                can_notify(last_notification, pair[1], pair[2], h, now).value
                    = can_notify(log[1].map_before, pair[1], pair[2], h, now).value

C28_ExceptionsAppliedOnEveryPass ==
    (commands # NoCall /\ arg.mqtt_client = "connected") =>
        \A k \in 1..Len(arg.exceptions) :
            LET camera == arg.exceptions[k][1]
                value == Lower(arg.exceptions[k][2])
            IN  value \in {StateEnabled, StateDisabled} =>
                    \E i \in 1..Len(commands[1].sent) :
                        commands[1].sent[i] = [camera |-> camera,
                                               enable |-> (value = StateEnabled),
                                               is_exception |-> TRUE]

\* C29: with the MQTT client connected, every discovered camera gets
\* exactly one command in a check, also a camera whose exception value is
\* neither 'enabled' nor 'disabled'.
C29_OneCommandPerDiscoveredCamera ==
    (commands # NoCall /\ arg.mqtt_client = "connected") =>
        \A i \in 1..Len(commands[1].discovered) :
            Len(CommandsFor(commands[1].discovered[i], 1)) = 1

(***************************************************************************)
(* Further properties of the doorbell edge detector (SpecDoorbell).        *)
(***************************************************************************)
\* C30: the detector's previous state is the alarm_state last observed; an
\* observation that follows an observed alarm_state of 1 reports no press,
\* so a run of 1s reports at most one; a rising edge that the debounce
\* window suppresses still sets the previous state to 1 (and leaves the
\* time of the last press), so it is not reported on a later poll unless a
\* 0 is observed in between.
C30_HeldOrSuppressedEdgeNotReportedLater ==
    /\ Observed # {} => driver._last_alarm_state \in Observed
    /\ (Polled /\ poll[1].sample.kind = "visitor" /\ poll[1].observed_before = {1})
           => ~poll[1].value
    /\ (Polled /\ poll[1].sample.kind = "visitor" /\ poll[1].sample.alarm_state = 1
               /\ poll[1].before._last_alarm_state = 0 /\ ~poll[1].value)
           => /\ driver._last_alarm_state = 1
              /\ driver.last_event_time = poll[1].before.last_event_time

\* no press was ever reported (the rising edge fell into the debounce
\* window), the alarm_state is observed at 1 again after the window has
\* passed, and still no press is reported
C30_Witness ==
    /\ Polled
    /\ poll[1].sample.kind = "visitor" /\ poll[1].sample.alarm_state = 1
    /\ poll[1].observed_before = {1}
    /\ poll[1].last_press = {}
    /\ poll[1].at - poll[1].before.last_event_time > driver.debounce_time
    /\ ~poll[1].value

\* C31: a pass of the loop made while the camera's last received
\* enabled/state is OFF does not poll the doorbell, reports and publishes
\* nothing and leaves the detector alone; a pass made while the state is
\* unknown or ON polls it.
C31_PolledUnlessCameraDisabled ==
    poll # <<>> =>
        /\ poll[1].enabled_state = {FALSE} =>
               /\ ~poll[1].polled
               /\ ~poll[1].value
               /\ poll[1].published = <<>>
               /\ driver = poll[1].before
        /\ poll[1].enabled_state \in {{}, {TRUE}} => poll[1].polled

\* the button is pressed while the camera is disabled: a rising edge
\* outside the debounce window that is not polled
C31_Witness ==
    /\ poll # <<>>
    /\ poll[1].enabled_state = {FALSE}
    /\ poll[1].sample.kind = "visitor" /\ poll[1].sample.alarm_state = 1
    /\ poll[1].before._last_alarm_state = 0
    /\ poll[1].at - poll[1].before.last_event_time > poll[1].before.debounce_time
    /\ ~poll[1].polled
    /\ poll[1].published = <<>>

\* C32: for a reported press the messages go out in the order ON, new
\* event, OFF, and every ON that was published is followed by an OFF.
C32_OnThenEventThenOff ==
    (Polled /\ poll[1].value) =>
        /\ \E n \in 0..3 : poll[1].published = SubSeq(<<"ON", "new", "OFF">>, 1, n)
        /\ \A i \in 1..Len(poll[1].published) :
               poll[1].published[i] = "ON" =>
                   \E j \in (i + 1)..Len(poll[1].published) : poll[1].published[j] = "OFF"

(***************************************************************************)
(* Properties of the Frigate API helper with one caller (SpecApi).         *)
(* log[1] is the last call.                                                *)
(***************************************************************************)
\* C33: with authentication configured, a call of _ensure_authenticated
\* that finds no token, or a token that expires within ExpiryBuffer (or has
\* expired), makes a login request, and when the login gives a token the
\* helper holds a token with a full lifetime from then on.
C33_DueTokenIsRefreshed ==
    (log # NoCall /\ log[1].op = "_ensure_authenticated" /\ log[1].before.needs_auth
        /\ (log[1].before._jwt_token = {}
               \/ log[1].at >= log[1].before._token_expiry - ExpiryBuffer)) =>
        /\ log[1].logins = 1
        /\ log[1].outcome = "token" =>
               api._jwt_token # {} /\ api._token_expiry = log[1].at + _token_refresh_sec

\* the login requests a fetch makes before its first GET
LoginsBeforeFirstGet ==
    IF log[1].before.needs_auth
           /\ (log[1].before._jwt_token = {} \/ log[1].at >= log[1].before._token_expiry)
    THEN 1 ELSE 0

\* C34: a fetch makes at most two GETs and gives bytes exactly when its
\* last GET gave bytes; a second GET is made only after a 401 on the first
\* and a re-login that succeeded; a 401 is followed by exactly one
\* re-login, and a second 401, another HTTP error or a failed re-login ends
\* the fetch with None.
C34_FetchEndsAfterTwoRequests ==
    (log # NoCall /\ log[1].op = "_fetch_image") =>
        LET requests == log[1].requests
            responses == log[1].responses
            relogins == log[1].logins - LoginsBeforeFirstGet
        IN  /\ requests <= 2
            /\ log[1].value # {} <=> (requests >= 1 /\ responses[requests] = "bytes")
            /\ requests = 2 => responses[1] = "unauthorized"
            /\ (requests >= 1 /\ responses[1] \notin {"bytes", "unauthorized"})
                   => requests = 1 /\ log[1].value = {}
            /\ relogins = IF log[1].before.needs_auth /\ requests >= 1
                                 /\ responses[1] = "unauthorized"
                          THEN 1 ELSE 0
            /\ (requests = 1 /\ responses[1] = "unauthorized") => log[1].value = {}

\* a 401, the re-login, and a second 401: None after two GETs and one login
C34_Witness ==
    /\ log # NoCall /\ log[1].op = "_fetch_image"
    /\ log[1].before.needs_auth
    /\ log[1].before._jwt_token # {}
    /\ log[1].responses = <<"unauthorized", "unauthorized">>
    /\ log[1].requests = 2
    /\ log[1].logins = 1
    /\ log[1].value = {}

(***************************************************************************)
(* Properties of concurrent logins (SpecLogin).                            *)
(***************************************************************************)
\* C35: at most one thread has a login request in flight, and when no
\* thread is inside _login the flag _login_in_progress is False.
C35_OneLoginInFlight ==
    /\ Cardinality({t \in Threads : pc[t] = "_login_537"}) <= 1
    /\ (\A t \in Threads : pc[t] \in {"idle", "_login_509"}) => ~api._login_in_progress

(***************************************************************************)
(* Properties of the LAN monitor (SpecLanMon).  log[1] is the last pass.   *)
(***************************************************************************)
\* C36: a notification never names an address of known_mac_addrs, and it
\* names an address that an earlier notification named only when more
\* than QUIESCE_HOURS have passed since that notification, whatever the
\* address did in between; an address is in the quiesce table only while
\* its notification is at most QUIESCE_HOURS old.
C36_KnownNeverAndUnknownOncePerQuiesce ==
    /\ \A mac \in DOMAIN lanmon.quiesce_tbl :
           mac \notin lanmon.known_mac_addrs /\ lanmon.quiesce_tbl[mac] <= now + QUIESCE_HOURS
    /\ log # NoCall =>
           \A mac \in log[1].notified :
               /\ mac \notin lanmon.known_mac_addrs
               /\ mac \in log[1].clients
               /\ mac \in DOMAIN log[1].before.notified_at =>
                      log[1].at - log[1].before.notified_at[mac] > QUIESCE_HOURS

\* an address is notified a second time, after it left and came back and
\* its entry expired
C36_Witness ==
    /\ log # NoCall
    /\ \E mac \in log[1].notified :
           /\ mac \in DOMAIN log[1].before.notified_at
           /\ mac \notin log[1].before.last_clients
           /\ mac \notin DOMAIN log[1].before.quiesce_tbl

(***************************************************************************)
(* Properties of the presence workers (SpecWorker).  log[1] is the last    *)
(* call of work().                                                         *)
(***************************************************************************)
\* C37: a call of work() that completes an observation commands the hub
\* exactly when the observed status differs from the recorded one (which
\* is None until the first observation was recorded), with 'arrived' for
\* online and 'departed' for offline; a call that completes no observation
\* sends nothing; the recorded status changes only in a call whose hub
\* command, if it sent one, returned; and no call changes the status of
\* another worker.
C37_CommandExactlyOnStatusChange ==
    log # NoCall =>
        LET w == log[1]
            is_online == worker.devs[w.dev_id].is_online
        IN  /\ w.observed = {} => w.cmd = {} /\ is_online = w.before.is_online
            /\ \A curr_online \in w.observed :
                   /\ w.cmd # {} <=> w.before.is_online # {curr_online}
                   /\ w.cmd \subseteq {IF curr_online THEN "arrived" ELSE "departed"}
                   /\ w.before.is_online = {} => w.cmd # {}
                   /\ IF w.cmd = {} \/ w.hub = {"returned"}
                      THEN is_online = {curr_online} /\ ~worker.stopped
                      ELSE is_online = w.before.is_online /\ worker.stopped

\* an observation that repeats the recorded status sends nothing, after an
\* earlier observation was recorded
C37_Witness ==
    /\ log # NoCall
    /\ log[1].observed # {}
    /\ log[1].observed = log[1].before.is_online
    /\ log[1].cmd = {}

(***************************************************************************)
(* Properties of the HTTP services (SpecServer).  log[1] is the last       *)
(* request.                                                                *)
(***************************************************************************)
\* the Authorization header carries the bearer token of the path
Authorized(secret, path, auth_header) ==
    auth_header = {[prefix |-> "Bearer ", rest |-> HmacHexdigest(secret, path)]}

\* C38: a POST runs a command only if the secret is not empty and the
\* Authorization header is 'Bearer ' followed by HMAC-SHA256(secret, path);
\* with an empty secret every POST is answered 500, with a missing or
\* wrong token every POST is answered 401, and neither runs a command.
C38_ActionOnlyWhenAuthorized ==
    (log # NoCall /\ log[1].method = "POST") =>
        LET q == log[1]
        IN  /\ q.action # {} =>
                   server.secret # "" /\ Authorized(server.secret, q.path, q.auth_header)
            /\ server.secret = "" => q.code = {500} /\ q.action = {}
            /\ (server.secret # "" /\ ~Authorized(server.secret, q.path, q.auth_header)) =>
                   q.code = {401} /\ q.action = {}

====
